---- MODULE Spec2Model ----
(***************************************************************************)
(* Multi-tenant real-time chat backend (siddhuthecoder/chat).              *)
(*                                                                         *)
(* Part I   Tenant Connection Router: config/db connectToTenantDB and      *)
(*          getTenantModels, services/tenantDatabaseService.               *)
(* Part II  Synchronization Engine: socket/socketManager handlers and the  *)
(*          REST controllers that share their stores.                      *)
(***************************************************************************)
EXTENDS Integers, Sequences, FiniteSets, TLC

(***************************************************************************)
(* Bounds of the model.                                                    *)
(***************************************************************************)
\* number of concurrent callers of the tenant router
NumProcs == 2

Tenants == {"T1", "T2"}
Procs == 1..NumProcs

\* number of messages ever created
MaxMsgs == 2

\* number of chats ever created by the creation handlers
MaxChats == 2

Users == {"u1", "u2"}
Socks == {"s1", "s2", "s3"}
Chats == {"c1", "c2"}
MsgIds == 1..MaxMsgs
Emojis == {"", "a", "b"}
Modes == {"forMe", "forEveryone"}
\* the user ids a payload may carry: "u3" is no participant and has no ChatUser
Ids == Users \cup {"u3"}
\* the values of the x-context-id header: absent, or a tenant id
Contexts == Tenants \cup {""}

\* no connection / no models / no document
None == 0

VARIABLES
    \* ---- Part I: tenant router (module-level state of config/db) ----
    connections,         \* connections[t]: registry entry, None or the n-th connection opened for t
    modelCache,          \* modelCache[t]: None or the connection the cached models are bound to
    initializedTenants,  \* Set<string> of tenantDatabaseService
    opened,              \* opened[t]: number of mongoose.createConnection calls made for t
    openFailed,          \* <<t, n>>: the n-th connection created for t never opened
    rpc,                 \* rpc[p]: position of caller p inside the router
    rcall,               \* rcall[p]: [tenant, entry, conn] locals of caller p
    \* ---- Part II: synchronization engine ----
    sockTok,             \* sockTok[s]: [user, tenant] decoded from the token socket s presents
    sockState,           \* sockState[s]: "new", "open" (past the middleware), "closed"
    rooms,               \* rooms[s]: chat rooms socket s is subscribed to (socket.rooms)
    cusers,              \* cusers[t][u]: ChatUser document of u in t's store, or None
    chats,               \* chats[t][c]: Chat document of t's store, or None
    msgs,                \* msgs[t][id]: Message document of t's store, or None
    nextId,              \* next fresh ObjectId
    emits,               \* events emitted by the last handler
    op,                  \* the last handler run and its payload
    pend,                \* pend[s]: the markMessageAsRead call of socket s that is
                         \* between its load and its save, or that was last to finish
    ccall,               \* ccall[p]: the REST call of caller p that is suspended:
                         \* a chat creation between its Chat.findOne and its
                         \* Chat.create, or a sendMessage between its
                         \* Message.create and its chat.save()
    cred,                \* cred[s]: what socket s presents in its handshake
    dpend,               \* dpend[s]: the disconnect handler of socket s that is
                         \* between its ChatUser.findOne and its save
    \* ---- Part III: field encryption of the document repositories ----
    mdocs,               \* mdocs[id]: Message document as stored: body, updatedAt, tenantId
    dcache,              \* decrypted-value cache: set of [key, value]
    clock,               \* the time, in the unit of updatedAt
    res                  \* the last repository or crypto call and what it returned

routerVars == <<connections, modelCache, initializedTenants, opened, openFailed, rpc, rcall>>

\* the state no message handler of the synchronization engine touches
cryptoVars == <<mdocs, dcache, clock, res>>

sideVars == <<ccall, cred, dpend, cryptoVars>>

syncVars == <<sockTok, sockState, rooms, cusers, chats, msgs, nextId, emits, op, pend,
              sideVars>>

vars == <<connections, modelCache, initializedTenants, opened, openFailed, rpc, rcall,
          sockTok, sockState, rooms, cusers, chats, msgs, nextId, emits, op, pend,
          ccall, cred, dpend, mdocs, dcache, clock, res>>

(***************************************************************************)
(* Part I. Tenant Connection Router                                        *)
(***************************************************************************)

\* entry points: ensureTenantDatabaseExists (socket and REST middleware, and
\* the first half of the socket manager's getTenantModels) and getTenantModels
\* of config/db (REST controllers, and the second half of the socket manager's)
IdleCall == [tenant |-> "T1", entry |-> "ensure", conn |-> None]

\* getTenantModels(tenantId, req): the tenant whose store is used
ActualTenantId(tenantId, reqGiven, contextTenantId) ==
    IF reqGiven /\ contextTenantId # "" THEN contextTenantId ELSE tenantId

\* connectToTenantDB up to its first await, called by p for tenant t from
\* entry e: a registry hit returns the connection to the caller's
\* continuation ret, a miss suspends on the key vault
ConnectToTenantDB(p, t, e, ret) ==
    IF connections[t] # None
    THEN /\ rcall' = [rcall EXCEPT ![p] = [tenant |-> t, entry |-> e, conn |-> connections[t]]]
         /\ rpc' = [rpc EXCEPT ![p] = ret]
    ELSE /\ rcall' = [rcall EXCEPT ![p] = [tenant |-> t, entry |-> e, conn |-> None]]
         /\ rpc' = [rpc EXCEPT ![p] = "kv"]

\* a caller enters ensureTenantDatabaseExists -> initializeTenantDB
StartEnsure(p, t) ==
    /\ rpc[p] = "idle"
    /\ IF t \in initializedTenants
       THEN \* getTenantConnection(tenantId) throws without a registry entry
            /\ connections[t] # None
            /\ UNCHANGED <<rpc, rcall>>
       ELSE ConnectToTenantDB(p, t, "ensure", "inited")
    /\ UNCHANGED <<connections, modelCache, initializedTenants, opened, openFailed>>
    /\ UNCHANGED syncVars

\* the key vault answered: createConnection and the registry store run
\* without suspension
KvOk(p) ==
    /\ rpc[p] = "kv"
    /\ LET t == rcall[p].tenant
           c == opened[t] + 1
       IN /\ opened' = [opened EXCEPT ![t] = c]
          /\ connections' = [connections EXCEPT ![t] = c]
          /\ rcall' = [rcall EXCEPT ![p].conn = c]
          /\ rpc' = [rpc EXCEPT ![p] = IF rcall[p].entry = "ensure" THEN "inited" ELSE "bind"]
    /\ UNCHANGED <<modelCache, initializedTenants, openFailed>>
    /\ UNCHANGED syncVars

\* the key vault answered and the connection created never opens (server
\* selection fails after connectToTenantDB has returned): createConnection is
\* not awaited, so the registry store and the caller go on as in KvOk
KvOkOpenFails(p) ==
    /\ rpc[p] = "kv"
    /\ LET t == rcall[p].tenant
           c == opened[t] + 1
       IN /\ opened' = [opened EXCEPT ![t] = c]
          /\ connections' = [connections EXCEPT ![t] = c]
          /\ openFailed' = openFailed \cup {<<t, c>>}
          /\ rcall' = [rcall EXCEPT ![p].conn = c]
          /\ rpc' = [rpc EXCEPT ![p] = IF rcall[p].entry = "ensure" THEN "inited" ELSE "bind"]
    /\ UNCHANGED <<modelCache, initializedTenants>>
    /\ UNCHANGED syncVars

\* the key vault threw: connectToTenantDB rethrows, initializeTenantDB
\* rethrows (ensureTenantDatabaseExists returns false), getTenantModels
\* rethrows
KvFail(p) ==
    /\ rpc[p] = "kv"
    /\ rpc' = [rpc EXCEPT ![p] = "idle"]
    /\ rcall' = [rcall EXCEPT ![p] = IdleCall]
    /\ UNCHANGED <<connections, modelCache, initializedTenants, opened, openFailed>>
    /\ UNCHANGED syncVars

\* initializeTenantDB after its await: mark the tenant initialized
MarkInitialized(p) ==
    /\ rpc[p] = "inited"
    /\ initializedTenants' = initializedTenants \cup {rcall[p].tenant}
    /\ rpc' = [rpc EXCEPT ![p] = "idle"]
    /\ rcall' = [rcall EXCEPT ![p] = IdleCall]
    /\ UNCHANGED <<connections, modelCache, opened, openFailed>>
    /\ UNCHANGED syncVars

\* a caller enters getTenantModels(tenantId) of config/db; ctx is the
\* request's x-context-id header, and no caller passes req
StartModels(p, t, ctx) ==
    /\ rpc[p] = "idle"
    /\ LET at == ActualTenantId(t, FALSE, ctx)
       IN IF modelCache[at] # None
          THEN UNCHANGED <<rpc, rcall>>
          ELSE ConnectToTenantDB(p, at, "models", "bind")
    /\ UNCHANGED <<connections, modelCache, initializedTenants, opened, openFailed>>
    /\ UNCHANGED syncVars

\* getTenantModels after its await: bind the models and cache them
BindModels(p) ==
    /\ rpc[p] = "bind"
    /\ modelCache' = [modelCache EXCEPT ![rcall[p].tenant] = rcall[p].conn]
    /\ rpc' = [rpc EXCEPT ![p] = "idle"]
    /\ rcall' = [rcall EXCEPT ![p] = IdleCall]
    /\ UNCHANGED <<connections, initializedTenants, opened, openFailed>>
    /\ UNCHANGED syncVars

\* connection.on("disconnected") of a connection opened for t
\* (StoreDisconnectedClosing: the handler also drops the registry entry)
StoreDisconnectedClosing(t) ==
    /\ opened[t] > 0
    /\ modelCache' = [modelCache EXCEPT ![t] = None]
    /\ connections' = [connections EXCEPT ![t] = None]
    /\ UNCHANGED <<initializedTenants, opened, openFailed, rpc, rcall>>
    /\ UNCHANGED syncVars

StoreDisconnected(t) ==
    /\ opened[t] > 0
    /\ modelCache' = [modelCache EXCEPT ![t] = None]
    /\ UNCHANGED <<connections, initializedTenants, opened, openFailed, rpc, rcall>>
    /\ UNCHANGED syncVars

RouterInit ==
    /\ connections = [t \in Tenants |-> None]
    /\ modelCache = [t \in Tenants |-> None]
    /\ initializedTenants = {}
    /\ opened = [t \in Tenants |-> 0]
    /\ openFailed = {}
    /\ rpc = [p \in Procs |-> "idle"]
    /\ rcall = [p \in Procs |-> IdleCall]

RouterNext ==
    \/ \E p \in Procs, t \in Tenants : StartEnsure(p, t)
    \/ \E p \in Procs, t \in Tenants, ctx \in Tenants \cup {""} : StartModels(p, t, ctx)
    \/ \E p \in Procs : KvOk(p)
    \/ \E p \in Procs : KvFail(p)
    \/ \E p \in Procs : MarkInitialized(p)
    \/ \E p \in Procs : BindModels(p)
    \/ \E t \in Tenants : StoreDisconnected(t)


(***************************************************************************)
(* Part II. Synchronization Engine                                         *)
(***************************************************************************)

Range(f) == {f[i] : i \in DOMAIN f}

\* a socket that presents no usable token
NoTok == [user |-> "", tenant |-> ""]

NoOp == [name |-> "init", sock |-> "", tenant |-> "", chatId |-> "", msg |-> None,
         user |-> "", mode |-> "", wrote |-> FALSE]

Ev(ev, to, chatId, msg, user, val, emoji) ==
    [ev |-> ev, to |-> to, chatId |-> chatId, msg |-> msg, user |-> user,
     val |-> val, emoji |-> emoji]

\* the tokens clients hold: REST requests present the same tokens as sockets
Principals == {sockTok[s] : s \in Socks} \ {NoTok}

\* io.sockets.sockets: the sockets currently connected to this process
LiveSockets == {s \in Socks : sockState[s] = "open"}

\* the store a socket handler works on: getTenantModels(socket.data.tenantId)
\* (SocketStoreDefault: every socket served from the store of one tenant)
SocketStoreDefault(s) == "T1"

SocketStore(s) == ActualTenantId(sockTok[s].tenant, FALSE, "")

\* populate("participants"): the participants that have a ChatUser document
Populated(t, c) == {u \in chats[t][c].participants : u \in DOMAIN cusers[t]}

\* ChatUser.findOne({ socketIds: socket.id })
UsersOfSocket(t, s) == {u \in DOMAIN cusers[t] : s \in Range(cusers[t][u].socketIds)}

\* one event per socket id stored for participant u
ToSocketsOf(t, u, ev, chatId, msg, user, val, emoji) ==
    IF u \in DOMAIN cusers[t]
    THEN {Ev(ev, sid, chatId, msg, user, val, emoji) : sid \in Range(cusers[t][u].socketIds)}
    ELSE {}

\* io.emit: one event per connected socket
Broadcast(live, ev, user, val) == {Ev(ev, sid, "", None, user, val, "") : sid \in live}

\* a message document is hidden for u when deletedFor holds an entry of u
HiddenFor(m, u) == u \in Range(m.deletedFor)

\* getUnreadCount(chatId, userId, tenantId) evaluated on the messages ms
GetUnreadCountNoViewers(ms, chatId, userId, tenantId) ==
    Cardinality({id \in DOMAIN ms :
        /\ ms[id].chatId = chatId
        /\ ms[id].senderId # userId
        /\ ms[id].tenantId = tenantId
        /\ ~HiddenFor(ms[id], userId)})

GetUnreadCount(ms, chatId, userId, tenantId) ==
    Cardinality({id \in DOMAIN ms :
        /\ ms[id].chatId = chatId
        /\ ms[id].senderId # userId
        /\ userId \notin Range(ms[id].viewers)
        /\ ms[id].tenantId = tenantId
        /\ ~HiddenFor(ms[id], userId)})

\* the countDocuments of the REST sendMessage (no tenantId filter)
SendMessageUnreadCount(ms, chatId, userId) ==
    Cardinality({id \in DOMAIN ms :
        /\ ms[id].chatId = chatId
        /\ ms[id].senderId # userId
        /\ userId \notin Range(ms[id].viewers)
        /\ ~HiddenFor(ms[id], userId)})

\* Message.create: schema defaults for viewers, reactions, deletedFor, __v
\* (NewMessageSeen: a message born with the other user among its viewers)
NewMessageSeen(chatId, senderId, tenantId) ==
    [chatId |-> chatId, senderId |-> senderId,
     viewers |-> <<CHOOSE u \in Users : u # senderId>>, reactions |-> <<>>,
     deletedFor |-> <<>>, tenantId |-> tenantId]

NewMessage(chatId, senderId, tenantId) ==
    [chatId |-> chatId, senderId |-> senderId, viewers |-> <<>>, reactions |-> <<>>,
     deletedFor |-> <<>>, tenantId |-> tenantId]

\* what a client presents in the handshake: header is handshake.auth.token ||
\* headers.authorization ("none": neither given, "raw": a value that does not
\* start with "Bearer ", "empty": "Bearer " followed by nothing, "bearer":
\* "Bearer <token>"), verdict is the answer of the identity provider for the
\* token, tenant is decoded.tenantId ("": the token carries none)
Headers == {"none", "raw", "empty", "bearer"}
Verdicts == {"valid", "invalid", "throws"}
Creds == [header : Headers, verdict : Verdicts, tenant : {"", "T1"}]
NoCred == [header |-> "unset", verdict |-> "invalid", tenant |-> ""]

\* the participant each device belongs to (decoded.userId of its token):
\* s1 and s2 are two devices of u1
DeviceOwner(s) == IF s = "s3" THEN "u2" ELSE "u1"

\* validateSocketAuth: the token is the part after "Bearer ", and it must verify
\* (TokenGivenAnyHeader: any header given is taken as the token)
TokenGivenAnyHeader(c) == c.header \in {"raw", "bearer"}

TokenGiven(c) == c.header = "bearer"

ValidateSocketAuth(c) == TokenGiven(c) /\ c.verdict = "valid"

\* ensureTenantDatabaseExists(t) run without interruption: TRUE unless the
\* connection has to be opened and the key vault fails (kvOk = FALSE)
EnsureTenantDatabaseExists(t, kvOk) ==
    \/ t \in initializedTenants /\ connections[t] # None
    \/ t \notin initializedTenants /\ (connections[t] # None \/ kvOk)

\* the handshake of socket s presenting c: socketTenantMiddleware, then the
\* connection handler that registers the event handlers of s
Connect(s, c, kvOk) ==
    /\ sockState[s] = "new"
    /\ cred[s] = NoCred
    /\ cred' = [cred EXCEPT ![s] = c]
    /\ IF ~ValidateSocketAuth(c)
       THEN \* Authentication failed
            /\ sockState' = [sockState EXCEPT ![s] = "rejected"]
            /\ op' = [NoOp EXCEPT !.name = "connect", !.sock = s,
                                  !.mode = "Authentication failed"]
            /\ UNCHANGED <<sockTok, connections, opened, initializedTenants>>
       ELSE IF c.tenant = ""
       THEN \* Tenant ID is required
            /\ sockTok' = [sockTok EXCEPT ![s] = [user |-> DeviceOwner(s), tenant |-> ""]]
            /\ sockState' = [sockState EXCEPT ![s] = "rejected"]
            /\ op' = [NoOp EXCEPT !.name = "connect", !.sock = s,
                                  !.mode = "Tenant ID is required"]
            /\ UNCHANGED <<connections, opened, initializedTenants>>
       ELSE /\ sockTok' = [sockTok EXCEPT ![s] = [user |-> DeviceOwner(s), tenant |-> c.tenant]]
            /\ IF EnsureTenantDatabaseExists(c.tenant, kvOk)
               THEN /\ sockState' = [sockState EXCEPT ![s] = "open"]
                    /\ op' = [NoOp EXCEPT !.name = "connect", !.sock = s,
                                          !.tenant = c.tenant, !.mode = "accepted"]
                    /\ initializedTenants' = initializedTenants \cup {c.tenant}
                    /\ IF connections[c.tenant] = None
                       THEN /\ opened' = [opened EXCEPT ![c.tenant] = @ + 1]
                            /\ connections' = [connections EXCEPT ![c.tenant] =
                                                  opened[c.tenant] + 1]
                       ELSE UNCHANGED <<connections, opened>>
               ELSE \* Database connection failed for tenant
                    /\ sockState' = [sockState EXCEPT ![s] = "rejected"]
                    /\ op' = [NoOp EXCEPT !.name = "connect", !.sock = s,
                                          !.tenant = c.tenant,
                                          !.mode = "Database connection failed"]
                    /\ UNCHANGED <<connections, opened, initializedTenants>>
    /\ emits' = {}
    /\ UNCHANGED <<rooms, cusers, chats, msgs, nextId, pend, ccall, dpend, cryptoVars>>
    /\ UNCHANGED <<modelCache, openFailed, rpc, rcall>>

\* no disconnect handler of the socket is between its load and its save
NoDisc == [phase |-> "none", user |-> "", socketIds |-> <<>>, stale |-> FALSE]

\* Mongoose versioning of a ChatUser document: a save that pushes to socketIds
\* or replaces it increments __v; every copy of u's document loaded before
\* that save is stale
UserVersionBumped(dp, t, u) ==
    [s \in Socks |->
        IF dp[s].phase = "loaded" /\ dp[s].user = u /\ SocketStore(s) = t
        THEN [dp[s] EXCEPT !.stale = TRUE] ELSE dp[s]]

\* socket.on("join")
Join(s) ==
    /\ sockState[s] = "open"
    /\ LET t == SocketStore(s)
           u == sockTok[s].user
       IN /\ IF u \in DOMAIN cusers[t]
             THEN /\ cusers' = [cusers EXCEPT ![t][u] =
                        [socketIds |-> IF s \in Range(@.socketIds)
                                       THEN @.socketIds ELSE Append(@.socketIds, s),
                         active |-> TRUE]]
                  /\ rooms' = [rooms EXCEPT ![s] = @ \cup
                        {c \in DOMAIN chats[t] : u \in chats[t][c].participants
                                                 /\ chats[t][c].tenantId = t}]
                  /\ emits' = Broadcast(LiveSockets, "participantStatusUpdate", u, 1)
                  /\ dpend' = IF s \in Range(cusers[t][u].socketIds) THEN dpend
                              ELSE UserVersionBumped(dpend, t, u)
             ELSE /\ cusers' = [cusers EXCEPT ![t] =
                        @ @@ (u :> [socketIds |-> <<s>>, active |-> FALSE])]
                  /\ emits' = {}
                  /\ UNCHANGED <<rooms, dpend>>
          /\ op' = [NoOp EXCEPT !.name = "join", !.sock = s, !.tenant = sockTok[s].tenant, !.user = u,
                                !.wrote = TRUE]
    /\ UNCHANGED <<sockTok, sockState, chats, msgs, nextId, pend, ccall, cred, cryptoVars>>
    /\ UNCHANGED routerVars

\* the document written by the disconnect handler of socket s from the loaded
\* socketIds
DisconnectedUser(socketIds, s) ==
    LET ids == SelectSeq(socketIds, LAMBDA x : x # s)
    IN [socketIds |-> ids, active |-> Len(ids) > 0]

\* transport-level disconnect and socket.on("disconnect") run without
\* interruption
Disconnect(s) ==
    /\ sockState[s] = "open"
    /\ sockState' = [sockState EXCEPT ![s] = "closed"]
    /\ rooms' = [rooms EXCEPT ![s] = {}]
    /\ LET t == SocketStore(s)
           found == UsersOfSocket(t, s)
       IN IF found # {}
          THEN LET u == CHOOSE x \in found : TRUE
                   doc == DisconnectedUser(cusers[t][u].socketIds, s)
               IN /\ cusers' = [cusers EXCEPT ![t][u] = doc]
                  /\ dpend' = UserVersionBumped(dpend, t, u)
                  /\ emits' = Broadcast(LiveSockets \ {s}, "participantStatusUpdate", u,
                                        IF doc.active THEN 1 ELSE 0)
                  /\ op' = [NoOp EXCEPT !.name = "disconnect", !.sock = s, !.tenant = sockTok[s].tenant,
                                        !.user = u, !.wrote = TRUE]
          ELSE /\ emits' = {}
               /\ op' = [NoOp EXCEPT !.name = "disconnect", !.sock = s, !.tenant = sockTok[s].tenant]
               /\ UNCHANGED <<cusers, dpend>>
    /\ UNCHANGED <<sockTok, chats, msgs, nextId, pend, ccall, cred, cryptoVars>>
    /\ UNCHANGED routerVars

\* transport-level disconnect and socket.on("disconnect") up to the answer of
\* ChatUser.findOne({socketIds: socket.id})
DisconnectLoad(s) ==
    /\ sockState[s] = "open"
    /\ sockState' = [sockState EXCEPT ![s] = "closed"]
    /\ rooms' = [rooms EXCEPT ![s] = {}]
    /\ LET t == SocketStore(s)
           found == UsersOfSocket(t, s)
       IN /\ dpend' = [dpend EXCEPT ![s] =
                IF found = {} THEN NoDisc
                ELSE LET u == CHOOSE x \in found : TRUE
                     IN [phase |-> "loaded", user |-> u,
                         socketIds |-> cusers[t][u].socketIds, stale |-> FALSE]]
          /\ op' = [NoOp EXCEPT !.name = "disconnectLoad", !.sock = s,
                                !.tenant = sockTok[s].tenant]
    /\ emits' = {}
    /\ UNCHANGED <<sockTok, cusers, chats, msgs, nextId, pend, ccall, cred, cryptoVars>>
    /\ UNCHANGED routerVars

\* the rest of that handler, resumed after other handlers may have run: the
\* save replaces socketIds, so it is refused (VersionError, caught and logged)
\* when the document's __v has moved since the load
DisconnectSave(s) ==
    /\ dpend[s].phase = "loaded"
    /\ LET t == SocketStore(s)
           u == dpend[s].user
           doc == DisconnectedUser(dpend[s].socketIds, s)
       IN IF dpend[s].stale
          THEN /\ emits' = {}
               /\ op' = [NoOp EXCEPT !.name = "disconnect", !.sock = s,
                                     !.tenant = sockTok[s].tenant, !.user = u,
                                     !.mode = "VersionError"]
               /\ dpend' = [dpend EXCEPT ![s] = NoDisc]
               /\ UNCHANGED cusers
          ELSE /\ cusers' = [cusers EXCEPT ![t][u] = doc]
               /\ dpend' = [UserVersionBumped(dpend, t, u) EXCEPT ![s] = NoDisc]
               /\ emits' = Broadcast(LiveSockets, "participantStatusUpdate", u,
                                     IF doc.active THEN 1 ELSE 0)
               /\ op' = [NoOp EXCEPT !.name = "disconnect", !.sock = s,
                                     !.tenant = sockTok[s].tenant, !.user = u,
                                     !.wrote = TRUE]
    /\ UNCHANGED <<sockTok, sockState, rooms, chats, msgs, nextId, pend, ccall, cred, cryptoVars>>
    /\ UNCHANGED routerVars

\* Array.from(new Set(seq)): first occurrences, in order
RECURSIVE Dedup(_)
Dedup(seq) ==
    IF seq = <<>> THEN <<>>
    ELSE LET rest == Dedup(SubSeq(seq, 1, Len(seq) - 1))
             x == seq[Len(seq)]
         IN IF x \in Range(rest) THEN rest ELSE Append(rest, x)

\* REST sendMessage by a request holding token p, header x-context-id ctx,
\* body {chatId, content.senderId._id = userId}
SendMessage(p, ctx, chatId, userId) ==
    /\ nextId <= MaxMsgs
    /\ LET t == ActualTenantId(p.tenant, FALSE, ctx)
       IN IF chatId \in DOMAIN chats[t] /\ chats[t][chatId].tenantId = p.tenant
          THEN LET id == nextId
                   ms == msgs[t] @@ (id :> NewMessage(chatId, userId, p.tenant))
                   parts == Populated(t, chatId)
               IN /\ msgs' = [msgs EXCEPT ![t] = ms]
                  /\ chats' = [chats EXCEPT ![t][chatId].lastMessage = id]
                  /\ nextId' = nextId + 1
                  /\ emits' =
                        UNION {ToSocketsOf(t, q, "unreadCountUpdate", chatId, None, q,
                                           SendMessageUnreadCount(ms, chatId, q), "")
                               : q \in parts \ {userId}}
                        \cup UNION {ToSocketsOf(t, q, "messageSent", chatId, id, userId, 0, "")
                                    : q \in parts}
                  /\ op' = [NoOp EXCEPT !.name = "sendMessage", !.tenant = p.tenant,
                                        !.chatId = chatId, !.msg = id, !.user = userId,
                                        !.wrote = TRUE]
          ELSE \* 404 Chat not found
               /\ emits' = {}
               /\ op' = [NoOp EXCEPT !.name = "sendMessage", !.tenant = p.tenant,
                                     !.chatId = chatId, !.user = userId]
               /\ UNCHANGED <<msgs, chats, nextId>>
    /\ UNCHANGED <<sockTok, sockState, rooms, cusers, pend>>
    /\ UNCHANGED <<routerVars, sideVars>>

\* socket.on("directMessage"): the chat is loaded with .lean(), so after
\* Message.create the call chat.save() throws (a lean object has no save) and
\* the catch ends the handler before lastMessage, any emit or any viewer update
DirectMessage(s, chatId) ==
    /\ sockState[s] = "open"
    /\ nextId <= MaxMsgs
    /\ LET t == SocketStore(s)
           found == UsersOfSocket(t, s)
       IN IF found # {} /\ chatId \in DOMAIN chats[t]
          THEN LET u == CHOOSE x \in found : TRUE
               IN /\ rooms' = [rooms EXCEPT ![s] = @ \cup {chatId}]
                  /\ msgs' = [msgs EXCEPT ![t] =
                                 @ @@ (nextId :> NewMessage(chatId, u, sockTok[s].tenant))]
                  /\ nextId' = nextId + 1
                  /\ op' = [NoOp EXCEPT !.name = "directMessage", !.sock = s, !.tenant = sockTok[s].tenant,
                                        !.chatId = chatId, !.msg = nextId, !.user = u,
                                        !.wrote = TRUE]
          ELSE /\ op' = [NoOp EXCEPT !.name = "directMessage", !.sock = s, !.tenant = sockTok[s].tenant,
                                     !.chatId = chatId]
               /\ UNCHANGED <<rooms, msgs, nextId>>
    /\ emits' = {}
    /\ UNCHANGED <<sockTok, sockState, cusers, chats, pend>>
    /\ UNCHANGED <<routerVars, sideVars>>

\* the markMessageAsRead call of a socket: phase "none", "loaded" (the message
\* was found and its viewers read, the save is still to come) or "done"
NoPend ==
    [phase |-> "none", chatId |-> "", msg |-> None, user |-> "", viewers |-> <<>>,
     stale |-> FALSE, reactions |-> <<>>, emoji |-> ""]

\* Mongoose versioning: a save that replaces an array or pushes to one
\* increments the document's __v, and a save that replaces an array only
\* applies while __v is the loaded one (VersionError otherwise).  Each loaded
\* document records whether __v has moved since it was loaded.
VersionBumped(pd, t, messageId) ==
    [s \in Socks |->
        IF pd[s].phase \in {"loaded", "reacting"} /\ pd[s].msg = messageId
           /\ SocketStore(s) = t
        THEN [pd[s] EXCEPT !.stale = TRUE] ELSE pd[s]]

\* the viewers written by markMessageAsRead: the deduplicated set plus userId
MarkReadViewersNoCheck(viewers, userId) == Append(viewers, userId)

MarkReadViewers(viewers, userId) ==
    IF userId \in Range(viewers) THEN viewers ELSE Append(Dedup(viewers), userId)

\* markMessageAsRead after Message.findById returned a document with the
\* viewers `loaded`: the messageRead fan-out, the conditional save and the
\* unread fan-out; iamOk: getUserDetailsByToken returned a user;
\* mine: the record socket s keeps of the call
MarkReadFinish(s, chatId, messageId, userId, loaded, stale, iamOk, mine) ==
    LET t == SocketStore(s)
        chatOk == chatId \in DOMAIN chats[t]
        parts == IF chatOk THEN Populated(t, chatId) ELSE {}
        readEv == IF iamOk
                  THEN UNION {ToSocketsOf(t, q, "messageRead", chatId, messageId,
                                          userId, 0, "") : q \in parts}
                  ELSE {}
        newViewers == MarkReadViewers(loaded, userId)
        writes == newViewers # loaded
        saved == writes /\ ~stale /\ messageId \in DOMAIN msgs[t]
        ms == IF saved THEN [msgs[t] EXCEPT ![messageId].viewers = newViewers]
              ELSE msgs[t]
    IN /\ msgs' = [msgs EXCEPT ![t] = ms]
       /\ emits' = readEv \cup
             (IF saved
              THEN UNION {ToSocketsOf(t, q, "unreadCountUpdate", chatId, None, q,
                            GetUnreadCount(ms, chatId, q, sockTok[s].tenant), "")
                          : q \in parts}
              ELSE {})
       /\ op' = [NoOp EXCEPT !.name = "markMessageAsRead", !.sock = s, !.tenant = sockTok[s].tenant,
                             !.chatId = chatId, !.msg = messageId, !.user = userId,
                             !.mode = IF writes /\ ~saved THEN "VersionError" ELSE "",
                             !.wrote = saved]
       /\ pend' = [(IF saved THEN VersionBumped(pend, t, messageId) ELSE pend)
                     EXCEPT ![s] = mine]

\* socket.on("markMessageAsRead") run without interruption
MarkMessageAsRead(s, chatId, messageId, userId, iamOk) ==
    /\ sockState[s] = "open"
    /\ pend[s].phase # "loaded"
    /\ LET t == SocketStore(s)
       IN IF messageId \notin DOMAIN msgs[t]
          THEN /\ emits' = {}
               /\ op' = [NoOp EXCEPT !.name = "markMessageAsRead", !.sock = s, !.tenant = sockTok[s].tenant,
                                     !.chatId = chatId, !.user = userId]
               /\ UNCHANGED <<msgs, pend>>
          ELSE MarkReadFinish(s, chatId, messageId, userId, msgs[t][messageId].viewers,
                              FALSE, iamOk, pend[s])
    /\ UNCHANGED <<sockTok, sockState, rooms, cusers, chats, nextId>>
    /\ UNCHANGED <<routerVars, sideVars>>

\* where a store call of markMessageAsRead can reject: Message.findById,
\* the ChatUser.findById of a messageRead fan-out callback, message.save()
Faults == {"findById", "fanOut", "save"}

\* socket.on("markMessageAsRead") run without interruption while one store
\* call rejects: a rejection of an awaited call of the handler body lands in
\* its catch; the fan-out callbacks are forEach(async ...) promises nobody
\* awaits, so the rejection of the callback of participant q is handled
\* nowhere and the handler body goes on
MarkMessageAsReadFault(s, chatId, messageId, userId, fault, q) ==
    /\ sockState[s] = "open"
    /\ pend[s].phase # "loaded"
    /\ LET t == SocketStore(s)
           chatOk == chatId \in DOMAIN chats[t]
           parts == IF chatOk THEN Populated(t, chatId) ELSE {}
           ReadEv(to) == UNION {ToSocketsOf(t, r, "messageRead", chatId, messageId,
                                            userId, 0, "") : r \in to}
       IN /\ messageId \in DOMAIN msgs[t]
          /\ fault = "fanOut" => q \in parts
          /\ LET loaded == msgs[t][messageId].viewers
                 newViewers == MarkReadViewers(loaded, userId)
                 saved == fault = "fanOut" /\ newViewers # loaded
                 ms == IF saved THEN [msgs[t] EXCEPT ![messageId].viewers = newViewers]
                       ELSE msgs[t]
             IN /\ msgs' = [msgs EXCEPT ![t] = ms]
                /\ emits' = CASE fault = "findById" -> {}
                               [] fault = "save" -> ReadEv(parts)
                               [] OTHER ->
                                    ReadEv(parts \ {q}) \cup
                                    (IF saved
                                     THEN UNION {ToSocketsOf(t, r, "unreadCountUpdate", chatId,
                                                   None, r,
                                                   GetUnreadCount(ms, chatId, r, sockTok[s].tenant),
                                                   "") : r \in parts}
                                     ELSE {})
                /\ op' = [NoOp EXCEPT !.name = "markMessageAsRead", !.sock = s,
                                      !.tenant = sockTok[s].tenant, !.chatId = chatId,
                                      !.msg = messageId, !.user = userId,
                                      !.mode = IF fault = "fanOut" THEN "unhandledRejection"
                                               ELSE "caught",
                                      !.wrote = saved]
                /\ pend' = IF saved THEN VersionBumped(pend, t, messageId) ELSE pend
    /\ UNCHANGED <<sockTok, sockState, rooms, cusers, chats, nextId>>
    /\ UNCHANGED <<routerVars, sideVars>>

\* socket.on("markMessageAsRead") up to its first await after the load:
\* Message.findById and the Set of the viewers read
MarkMessageAsReadLoad(s, chatId, messageId, userId) ==
    /\ sockState[s] = "open"
    /\ pend[s].phase # "loaded"
    /\ messageId \in DOMAIN msgs[SocketStore(s)]
    /\ pend' = [pend EXCEPT ![s] =
                   [phase |-> "loaded", chatId |-> chatId, msg |-> messageId,
                    user |-> userId, viewers |-> msgs[SocketStore(s)][messageId].viewers,
                    stale |-> FALSE, reactions |-> <<>>, emoji |-> ""]]
    /\ emits' = {}
    /\ op' = [NoOp EXCEPT !.name = "markMessageAsReadLoad", !.sock = s,
                          !.tenant = sockTok[s].tenant, !.chatId = chatId,
                          !.msg = messageId, !.user = userId]
    /\ UNCHANGED <<sockTok, sockState, rooms, cusers, chats, msgs, nextId>>
    /\ UNCHANGED <<routerVars, sideVars>>

\* the rest of that call, resumed after other handlers may have run
MarkMessageAsReadSave(s, iamOk) ==
    /\ sockState[s] = "open"
    /\ pend[s].phase = "loaded"
    /\ MarkReadFinish(s, pend[s].chatId, pend[s].msg, pend[s].user, pend[s].viewers,
                      pend[s].stale, iamOk,
                      [NoPend EXCEPT !.phase = "done", !.msg = pend[s].msg,
                                     !.user = pend[s].user])
    /\ UNCHANGED <<sockTok, sockState, rooms, cusers, chats, nextId>>
    /\ UNCHANGED <<routerVars, sideVars>>

\* Message.updateMany({chatId, senderId != userId, viewers != userId},
\*                    {$addToSet: {viewers: userId}})
\* (MarkAllUpdateOne: an updateOne, which stops at the first match)
MarkAllUpdateOne(ms, chatId, userId) ==
    LET match == {id \in DOMAIN ms : /\ ms[id].chatId = chatId
                                     /\ ms[id].senderId # userId
                                     /\ userId \notin Range(ms[id].viewers)}
    IN [id \in DOMAIN ms |->
           IF match # {} /\ id = CHOOSE x \in match : \A y \in match : x <= y
           THEN [ms[id] EXCEPT !.viewers = Append(@, userId)]
           ELSE ms[id]]

MarkAllUpdate(ms, chatId, userId) ==
    [id \in DOMAIN ms |->
        IF /\ ms[id].chatId = chatId
           /\ ms[id].senderId # userId
           /\ userId \notin Range(ms[id].viewers)
        THEN [ms[id] EXCEPT !.viewers = Append(@, userId)]
        ELSE ms[id]]

\* socket.on("markAllMessagesAsRead")
MarkAllMessagesAsRead(s, chatId, userId) ==
    /\ sockState[s] = "open"
    /\ LET t == SocketStore(s)
           ms == MarkAllUpdate(msgs[t], chatId, userId)
           parts == IF chatId \in DOMAIN chats[t] THEN Populated(t, chatId) ELSE {}
       IN /\ msgs' = [msgs EXCEPT ![t] = ms]
          /\ emits' = UNION {ToSocketsOf(t, q, "unreadCountUpdate", chatId, None, q,
                               GetUnreadCount(ms, chatId, q, sockTok[s].tenant), "")
                             : q \in parts \ {userId}}
          /\ op' = [NoOp EXCEPT !.name = "markAllMessagesAsRead", !.sock = s, !.tenant = sockTok[s].tenant,
                                !.chatId = chatId, !.user = userId,
                                !.wrote = (ms # msgs[t])]
    /\ UNCHANGED <<sockTok, sockState, rooms, cusers, chats, nextId, pend>>
    /\ UNCHANGED <<routerVars, sideVars>>

\* the reactions written by addReaction: drop the user's entries, then
\* append the new one unless the emoji is empty
AddReactionResultKeepOld(reactions, userId, emoji) ==
    IF emoji # "" THEN Append(reactions, [userId |-> userId, emoji |-> emoji])
    ELSE reactions

AddReactionResult(reactions, userId, emoji) ==
    LET kept == SelectSeq(reactions, LAMBDA r : r.userId # userId)
    IN IF emoji # "" THEN Append(kept, [userId |-> userId, emoji |-> emoji]) ELSE kept

\* socket.on("addReaction"); iamOk: getUserDetailsByToken returned a user
AddReaction(s, messageId, chatId, emoji, iamOk) ==
    /\ sockState[s] = "open"
    /\ LET t == SocketStore(s)
           found == UsersOfSocket(t, s)
       IN IF found = {} \/ messageId \notin DOMAIN msgs[t]
          THEN /\ emits' = {}
               /\ op' = [NoOp EXCEPT !.name = "addReaction", !.sock = s, !.tenant = sockTok[s].tenant,
                                     !.chatId = chatId, !.mode = emoji]
               /\ UNCHANGED <<msgs, pend>>
          ELSE LET u == CHOOSE x \in found : TRUE
                   m == msgs[t][messageId]
                   rs == AddReactionResult(m.reactions, u, emoji)
                   wrote == emoji # "" \/ rs # m.reactions
               IN /\ msgs' = [msgs EXCEPT ![t][messageId].reactions = rs]
                  /\ pend' = IF wrote THEN VersionBumped(pend, t, messageId) ELSE pend
                  /\ emits' = IF chatId \in DOMAIN chats[t] /\ iamOk
                              THEN UNION {ToSocketsOf(t, q, "messageReaction", chatId,
                                                      messageId, u, 0, emoji)
                                          : q \in Populated(t, chatId)}
                              ELSE {}
                  /\ op' = [NoOp EXCEPT !.name = "addReaction", !.sock = s, !.tenant = sockTok[s].tenant,
                                        !.chatId = chatId, !.msg = messageId, !.user = u,
                                        !.mode = emoji, !.wrote = wrote]
    /\ UNCHANGED <<sockTok, sockState, rooms, cusers, chats, nextId>>
    /\ UNCHANGED <<routerVars, sideVars>>

\* socket.on("addReaction") up to the answer of Message.findById: the user
\* of the socket and the message were found
AddReactionLoad(s, messageId, chatId, emoji) ==
    /\ sockState[s] = "open"
    /\ pend[s].phase \notin {"loaded", "reacting"}
    /\ LET t == SocketStore(s)
           found == UsersOfSocket(t, s)
       IN /\ found # {}
          /\ messageId \in DOMAIN msgs[t]
          /\ pend' = [pend EXCEPT ![s] =
                [NoPend EXCEPT !.phase = "reacting", !.chatId = chatId, !.msg = messageId,
                               !.user = CHOOSE x \in found : TRUE,
                               !.reactions = msgs[t][messageId].reactions,
                               !.emoji = emoji]]
    /\ emits' = {}
    /\ op' = [NoOp EXCEPT !.name = "addReactionLoad", !.sock = s,
                          !.tenant = sockTok[s].tenant, !.chatId = chatId,
                          !.msg = messageId, !.mode = emoji]
    /\ UNCHANGED <<sockTok, sockState, rooms, cusers, chats, msgs, nextId>>
    /\ UNCHANGED <<routerVars, sideVars>>

\* the rest of that handler, resumed after other handlers may have run:
\* message.reactions was replaced by the filtered array, so message.save() is
\* refused (VersionError, caught and logged) when the document's __v has
\* moved since the load
AddReactionSave(s, iamOk) ==
    /\ sockState[s] = "open"
    /\ pend[s].phase = "reacting"
    /\ LET t == SocketStore(s)
           call == pend[s]
           rs == AddReactionResult(call.reactions, call.user, call.emoji)
           wrote == call.emoji # "" \/ rs # call.reactions
           done == [NoPend EXCEPT !.phase = "done", !.msg = call.msg,
                                  !.user = call.user, !.emoji = call.emoji]
       IN IF call.msg \notin DOMAIN msgs[t] \/ (wrote /\ call.stale)
          THEN /\ emits' = {}
               /\ op' = [NoOp EXCEPT !.name = "addReaction", !.sock = s,
                                     !.tenant = sockTok[s].tenant,
                                     !.chatId = call.chatId, !.msg = call.msg,
                                     !.user = call.user, !.mode = "VersionError"]
               /\ pend' = [pend EXCEPT ![s] = done]
               /\ UNCHANGED msgs
          ELSE /\ msgs' = [msgs EXCEPT ![t][call.msg].reactions =
                                         IF wrote THEN rs ELSE @]
               /\ pend' = [(IF wrote THEN VersionBumped(pend, t, call.msg) ELSE pend)
                             EXCEPT ![s] = done]
               /\ emits' = IF call.chatId \in DOMAIN chats[t] /\ iamOk
                           THEN UNION {ToSocketsOf(t, q, "messageReaction", call.chatId,
                                                   call.msg, call.user, 0, call.emoji)
                                       : q \in Populated(t, call.chatId)}
                           ELSE {}
               /\ op' = [NoOp EXCEPT !.name = "addReaction", !.sock = s,
                                     !.tenant = sockTok[s].tenant,
                                     !.chatId = call.chatId, !.msg = call.msg,
                                     !.user = call.user, !.mode = call.emoji,
                                     !.wrote = wrote]
    /\ UNCHANGED <<sockTok, sockState, rooms, cusers, chats, nextId>>
    /\ UNCHANGED <<routerVars, sideVars>>

Max(S) == CHOOSE x \in S : \A y \in S : y <= x

\* Message.findOne({chatId, _id != excluded, not hidden for userId})
\*   .sort({createdAt: -1}): the latest such message, or None
\* (LastMessageOfChat: the same without the deletedFor condition)
LastMessageOfChat(ms, chatId, userId, excluded) ==
    LET cand == {id \in DOMAIN ms : ms[id].chatId = chatId /\ id # excluded}
    IN IF cand = {} THEN None ELSE Max(cand)

LastVisibleMessage(ms, chatId, userId, excluded) ==
    LET cand == {id \in DOMAIN ms :
                    /\ ms[id].chatId = chatId
                    /\ id # excluded
                    /\ ~HiddenFor(ms[id], userId)}
    IN IF cand = {} THEN None ELSE Max(cand)

\* the forEveryone guard of deleteMessage: the payload's userId is compared
\* with the message's sender
MayDeleteForEveryone(m, userId) == m.senderId = userId

\* the forMe branch: whether the chat's lastMessage is rewritten
RewritesLastMessageNever(m, userId, lastVisible) == FALSE

\* (RewritesLastMessageOthers: the rewrite made for everyone but the sender)
RewritesLastMessageOthers(m, userId, lastVisible) ==
    m.senderId # userId /\ lastVisible # None

RewritesLastMessage(m, userId, lastVisible) ==
    m.senderId = userId /\ lastVisible # None

\* deleteMessage of the socket manager and of the REST controller, on store t
\* for a caller of tenant tag: payload {messageId, chatId, userId, mode}
DeleteMessageOn(name, s, t, tag, messageId, chatId, userId, mode) ==
    IF ~(/\ messageId \in DOMAIN msgs[t]
         /\ msgs[t][messageId].chatId = chatId
         /\ msgs[t][messageId].tenantId = tag)
    THEN \* Message not found
         /\ emits' = {}
         /\ op' = [NoOp EXCEPT !.name = name, !.sock = s, !.tenant = tag, !.chatId = chatId,
                               !.user = userId, !.mode = mode]
         /\ UNCHANGED <<msgs, chats, pend>>
    ELSE LET m == msgs[t][messageId]
         IN IF mode = "forEveryone" /\ ~MayDeleteForEveryone(m, userId)
            THEN \* Not authorized to delete this message for everyone
                 /\ emits' = {}
                 /\ op' = [NoOp EXCEPT !.name = name, !.sock = s, !.tenant = tag,
                                       !.chatId = chatId, !.msg = messageId,
                                       !.user = userId, !.mode = "denied"]
                 /\ UNCHANGED <<msgs, chats, pend>>
            ELSE IF mode = "forEveryone"
            THEN LET ms == [id \in DOMAIN msgs[t] \ {messageId} |-> msgs[t][id]]
                 IN /\ msgs' = [msgs EXCEPT ![t] = ms]
                    /\ emits' = IF chatId \in DOMAIN chats[t]
                                THEN UNION {ToSocketsOf(t, q, "messageDeleted", chatId,
                                               messageId, q,
                                               LastVisibleMessage(ms, chatId, q, messageId),
                                               "forEveryone")
                                            : q \in Populated(t, chatId)}
                                ELSE {}
                    /\ op' = [NoOp EXCEPT !.name = name, !.sock = s, !.tenant = tag,
                                          !.chatId = chatId, !.msg = messageId,
                                          !.user = userId, !.mode = mode, !.wrote = TRUE]
                    /\ UNCHANGED <<chats, pend>>
            ELSE LET ms == IF HiddenFor(m, userId) THEN msgs[t]
                           ELSE [msgs[t] EXCEPT ![messageId].deletedFor = Append(@, userId)]
                     lastVisible == LastVisibleMessage(ms, chatId, userId, None)
                 IN /\ msgs' = [msgs EXCEPT ![t] = ms]
                    /\ pend' = IF HiddenFor(m, userId) THEN pend
                               ELSE VersionBumped(pend, t, messageId)
                    /\ chats' = IF RewritesLastMessage(m, userId, lastVisible)
                                   /\ chatId \in DOMAIN chats[t]
                                THEN [chats EXCEPT ![t][chatId].lastMessage = lastVisible]
                                ELSE chats
                    /\ emits' = ToSocketsOf(t, userId, "messageDeleted", chatId, messageId,
                                            userId, lastVisible, "forMe")
                    /\ op' = [NoOp EXCEPT !.name = name, !.sock = s, !.tenant = tag,
                                          !.chatId = chatId, !.msg = messageId,
                                          !.user = userId, !.mode = mode, !.wrote = TRUE]

\* socket.on("deleteMessage")
DeleteMessage(s, messageId, chatId, userId, mode) ==
    /\ sockState[s] = "open"
    /\ DeleteMessageOn("deleteMessage", s, SocketStore(s), sockTok[s].tenant,
                       messageId, chatId, userId, mode)
    /\ UNCHANGED <<sockTok, sockState, rooms, cusers, nextId>>
    /\ UNCHANGED <<routerVars, sideVars>>

\* REST deleteMessage by a request holding token p, header x-context-id ctx
DeleteMessageRest(p, ctx, messageId, chatId, userId, mode) ==
    /\ DeleteMessageOn("deleteMessageRest", "", ActualTenantId(p.tenant, FALSE, ctx),
                       p.tenant, messageId, chatId, userId, mode)
    /\ UNCHANGED <<sockTok, sockState, rooms, cusers, nextId>>
    /\ UNCHANGED <<routerVars, sideVars>>

\* messages fetched per page of getMessageHistory
HistoryPageSize == 10

\* sort({createdAt: -1}).limit(n) over the message ids S: the n newest
Newest(S, n) == {id \in S : Cardinality({j \in S : j > id}) < n}

\* hasMore of a messageHistory reply: totalMessages > skip + limit with
\* limit = 10 * page and skip = (page - 1) * limit
HasMore(totalMessages, page) ==
    LET limit == HistoryPageSize * page
        skip == (page - 1) * limit
    IN totalMessages > skip + limit

\* socket.on("getMessageHistory"): the newest 10 * page messages of the chat
\* with the socket's tenant id, one messageHistory entry per message, val the
\* total of the chat; the entry messageHistoryPage carries the reply's total
\* (val) and hasMore (emoji "hasMore" when true)
GetMessageHistory(s, chatId, page) ==
    /\ sockState[s] = "open"
    /\ LET t == SocketStore(s)
           ofChat == {id \in DOMAIN msgs[t] : msgs[t][id].chatId = chatId}
           mine == {id \in ofChat : msgs[t][id].tenantId = sockTok[s].tenant}
           totalMessages == Cardinality(ofChat)
       IN /\ emits' = {Ev("messageHistory", s, chatId, id, msgs[t][id].senderId,
                           totalMessages, "")
                       : id \in Newest(mine, HistoryPageSize * page)}
                      \cup {Ev("messageHistoryPage", s, chatId, None, sockTok[s].user,
                                totalMessages,
                                IF HasMore(totalMessages, page) THEN "hasMore" ELSE "")}
          /\ op' = [NoOp EXCEPT !.name = "getMessageHistory", !.sock = s,
                                !.tenant = sockTok[s].tenant, !.chatId = chatId,
                                !.user = sockTok[s].user]
    /\ UNCHANGED <<sockTok, sockState, rooms, cusers, chats, msgs, nextId, pend>>
    /\ UNCHANGED <<routerVars, sideVars>>

\* ---- chat creation: REST createDirectChat, createChat, createMultipleChat
\* ---- and socket startChat ----

\* the ObjectIds of the chats created while the process runs, in creation order
ChatIdPool == <<"c3", "c4", "c5", "c6">>

CreatedChats == {c \in Range(ChatIdPool) : \E t \in Tenants : c \in DOMAIN chats[t]}

RestCreators == {"createDirectChat", "createChat", "createMultipleChat"}

\* no chat-creation call in progress
NoCreate == [phase |-> "idle", entry |-> "", sock |-> "", tenant |-> "", userId |-> "",
             contact |-> "", chatId |-> "", msg |-> 0]

\* ChatUser.create({_id}): schema defaults
NewChatUser == [socketIds |-> <<>>, active |-> FALSE]

\* the chats matched by the handler's Chat.findOne for the pair (userId, contact):
\* the REST handlers ask for exactly these two participants and chatType
\* Direct, startChat for any chat of the tenant holding both
FindChat(chs, entry, userId, contact, tenantId) ==
    {c \in DOMAIN chs :
        /\ chs[c].tenantId = tenantId
        /\ {userId, contact} \subseteq chs[c].participants
        /\ entry \in RestCreators =>
              /\ Cardinality(chs[c].participants) = 2
              /\ chs[c].chatType = "Direct"}

\* whether the handler creates a message for the chat it found or created
CreatesMessage(entry, isNew) ==
    entry \in {"createChat", "createMultipleChat"} \/ (entry = "createDirectChat" /\ isNew)

\* the handler from the point its chat is known: chs and cus are the chats
\* and ChatUsers of store t as the handler has left them so far
CreateChatTail(entry, s, t, tag, c, userId, isNew, chs, cus) ==
    /\ CreatesMessage(entry, isNew) => nextId <= MaxMsgs
    /\ cusers' = [cusers EXCEPT ![t] = cus]
    /\ IF CreatesMessage(entry, isNew)
       THEN /\ msgs' = [msgs EXCEPT ![t] = @ @@ (nextId :> NewMessage(c, userId, tag))]
            /\ chats' = [chats EXCEPT ![t] = [chs EXCEPT ![c].lastMessage = nextId]]
            /\ nextId' = nextId + 1
            /\ emits' = IF entry = "createDirectChat" THEN {}
                        ELSE UNION {IF q \in DOMAIN cus
                                    THEN {Ev("messageSent", sid, c, nextId, userId, 0, "")
                                          : sid \in Range(cus[q].socketIds)}
                                    ELSE {}
                                    : q \in chs[c].participants \ {userId}}
            /\ op' = [NoOp EXCEPT !.name = entry, !.sock = s, !.tenant = tag, !.chatId = c,
                                  !.msg = nextId, !.user = userId, !.wrote = TRUE]
       ELSE /\ chats' = [chats EXCEPT ![t] = chs]
            /\ emits' = {}
            /\ op' = [NoOp EXCEPT !.name = entry, !.sock = s, !.tenant = tag, !.chatId = c,
                                  !.user = userId, !.wrote = isNew]
            /\ UNCHANGED <<msgs, nextId>>

\* a chat-creation handler up to the answer of its Chat.findOne: the contact's
\* ChatUser is created when missing; a chat that is found completes the
\* handler, a miss leaves the caller before its Chat.create
CreateChatFind(p, entry, s, tag, userId, contact) ==
    /\ ccall[p].phase = "idle"
    /\ entry = "startChat" => sockState[s] = "open"
    /\ LET t == ActualTenantId(tag, FALSE, "")
       IN IF entry = "startChat" /\ userId \notin DOMAIN cusers[t]
          THEN \* Current user not found
               /\ emits' = {}
               /\ op' = [NoOp EXCEPT !.name = entry, !.sock = s, !.tenant = tag,
                                     !.user = userId]
               /\ UNCHANGED <<cusers, chats, msgs, nextId, ccall>>
          ELSE LET cus == IF contact \in DOMAIN cusers[t] THEN cusers[t]
                          ELSE cusers[t] @@ (contact :> NewChatUser)
                   found == FindChat(chats[t], entry, userId, contact, tag)
               IN IF found # {}
                  THEN /\ CreateChatTail(entry, s, t, tag, CHOOSE c \in found : TRUE,
                                         userId, FALSE, chats[t], cus)
                       /\ UNCHANGED ccall
                  ELSE /\ ccall' = [ccall EXCEPT ![p] =
                              [phase |-> "create", entry |-> entry, sock |-> s,
                               tenant |-> tag, userId |-> userId, contact |-> contact,
                               chatId |-> "", msg |-> 0]]
                       /\ cusers' = [cusers EXCEPT ![t] = cus]
                       /\ emits' = {}
                       /\ op' = [NoOp EXCEPT !.name = entry, !.sock = s, !.tenant = tag,
                                             !.user = userId, !.mode = "find"]
                       /\ UNCHANGED <<chats, msgs, nextId>>
    /\ UNCHANGED <<sockTok, sockState, rooms, pend, cred, dpend, cryptoVars>>
    /\ UNCHANGED routerVars

\* the rest of that handler, resumed after other handlers may have run:
\* Chat.create and what follows it
CreateChatCreate(p) ==
    /\ ccall[p].phase = "create"
    /\ Cardinality(CreatedChats) < MaxChats
    /\ LET call == ccall[p]
           t == ActualTenantId(call.tenant, FALSE, "")
           c == ChatIdPool[Cardinality(CreatedChats) + 1]
           chs == chats[t] @@ (c :> [participants |-> {call.userId, call.contact},
                                     lastMessage |-> None, chatType |-> "Direct",
                                     tenantId |-> call.tenant])
       IN CreateChatTail(call.entry, call.sock, t, call.tenant, c, call.userId, TRUE,
                         chs, cusers[t])
    /\ ccall' = [ccall EXCEPT ![p] = NoCreate]
    /\ UNCHANGED <<sockTok, sockState, rooms, pend, cred, dpend, cryptoVars>>
    /\ UNCHANGED routerVars

\* REST sendMessage of caller p holding token q, up to the answer of its
\* Message.create: the chat was found and the message is stored
SendMessageCreate(p, q, chatId, userId) ==
    /\ ccall[p].phase = "idle"
    /\ nextId <= MaxMsgs
    /\ LET t == ActualTenantId(q.tenant, FALSE, "")
       IN /\ chatId \in DOMAIN chats[t] /\ chats[t][chatId].tenantId = q.tenant
          /\ msgs' = [msgs EXCEPT ![t] =
                         @ @@ (nextId :> NewMessage(chatId, userId, q.tenant))]
    /\ nextId' = nextId + 1
    /\ ccall' = [ccall EXCEPT ![p] =
                    [NoCreate EXCEPT !.phase = "send", !.entry = "sendMessage",
                                     !.tenant = q.tenant, !.userId = userId,
                                     !.chatId = chatId, !.msg = nextId]]
    /\ emits' = {}
    /\ op' = [NoOp EXCEPT !.name = "sendMessage", !.tenant = q.tenant, !.chatId = chatId,
                          !.msg = nextId, !.user = userId, !.mode = "create"]
    /\ UNCHANGED <<sockTok, sockState, rooms, cusers, chats, pend, cred, dpend, cryptoVars>>
    /\ UNCHANGED routerVars

\* the rest of that handler, resumed after other handlers may have run:
\* chat.lastMessage = message._id, chat.save() (a $set of lastMessage, which
\* Mongoose does not version-check) and the fan-out
SendMessageSave(p) ==
    /\ ccall[p].phase = "send"
    /\ LET call == ccall[p]
           t == ActualTenantId(call.tenant, FALSE, "")
           parts == Populated(t, call.chatId)
       IN /\ chats' = [chats EXCEPT ![t][call.chatId].lastMessage = call.msg]
          /\ emits' =
                UNION {ToSocketsOf(t, u, "unreadCountUpdate", call.chatId, None, u,
                                   SendMessageUnreadCount(msgs[t], call.chatId, u), "")
                       : u \in parts \ {call.userId}}
                \cup UNION {ToSocketsOf(t, u, "messageSent", call.chatId, call.msg,
                                        call.userId, 0, "")
                            : u \in parts}
          /\ op' = [NoOp EXCEPT !.name = "sendMessage", !.tenant = call.tenant,
                                !.chatId = call.chatId, !.msg = call.msg,
                                !.user = call.userId, !.wrote = TRUE]
    /\ ccall' = [ccall EXCEPT ![p] = NoCreate]
    /\ UNCHANGED <<sockTok, sockState, rooms, cusers, msgs, nextId, pend, cred, dpend,
                   cryptoVars>>
    /\ UNCHANGED routerVars

\* ---- group chats: REST createGroupChat and exitChat ----

\* createGroupChat by a request holding token q, body {name, participants,
\* userId}: the creator is added to the participants, missing ChatUsers are
\* created, then the chat and its system message
CreateGroupChat(q, participants, userId) ==
    /\ participants # {}
    /\ Cardinality(CreatedChats) < MaxChats
    /\ nextId <= MaxMsgs
    /\ LET t == ActualTenantId(q.tenant, FALSE, "")
           all == participants \cup {userId}
           c == ChatIdPool[Cardinality(CreatedChats) + 1]
           cus == [u \in DOMAIN cusers[t] \cup all |->
                      IF u \in DOMAIN cusers[t] THEN cusers[t][u] ELSE NewChatUser]
       IN /\ cusers' = [cusers EXCEPT ![t] = cus]
          /\ chats' = [chats EXCEPT ![t] =
                          @ @@ (c :> [participants |-> all, lastMessage |-> nextId,
                                      chatType |-> "Group", tenantId |-> q.tenant])]
          /\ msgs' = [msgs EXCEPT ![t] = @ @@ (nextId :> NewMessage(c, userId, q.tenant))]
          /\ nextId' = nextId + 1
          /\ emits' = UNION {{Ev("messageSent", sid, c, nextId, userId, 0, "")
                              : sid \in Range(cus[u].socketIds)} : u \in all}
          /\ op' = [NoOp EXCEPT !.name = "createGroupChat", !.tenant = q.tenant,
                                !.chatId = c, !.msg = nextId, !.user = userId,
                                !.wrote = TRUE]
    /\ UNCHANGED <<sockTok, sockState, rooms, pend>>
    /\ UNCHANGED <<routerVars, sideVars>>

\* exitChat by a request holding token q, params {chatId}, body {userId}
ExitChat(q, chatId, userId) ==
    /\ nextId <= MaxMsgs
    /\ LET t == ActualTenantId(q.tenant, FALSE, "")
       IN IF ~(chatId \in DOMAIN chats[t] /\ chats[t][chatId].tenantId = q.tenant)
          THEN \* 404 Chat not found
               /\ emits' = {}
               /\ op' = [NoOp EXCEPT !.name = "exitChat", !.tenant = q.tenant,
                                     !.chatId = chatId, !.user = userId, !.mode = "404"]
               /\ UNCHANGED <<chats, msgs, nextId>>
          ELSE IF chats[t][chatId].chatType # "Group"
          THEN \* 400 Can only exit from group chats
               /\ emits' = {}
               /\ op' = [NoOp EXCEPT !.name = "exitChat", !.tenant = q.tenant,
                                     !.chatId = chatId, !.user = userId, !.mode = "400"]
               /\ UNCHANGED <<chats, msgs, nextId>>
          ELSE LET left == chats[t][chatId].participants \ {userId}
               IN /\ chats' = [chats EXCEPT ![t][chatId].participants = left,
                                            ![t][chatId].lastMessage = nextId]
                  /\ msgs' = [msgs EXCEPT ![t] =
                                 @ @@ (nextId :> NewMessage(chatId, userId, q.tenant))]
                  /\ nextId' = nextId + 1
                  /\ emits' = UNION {ToSocketsOf(t, u, "messageSent", chatId, nextId,
                                                 userId, 0, "") : u \in left}
                  /\ op' = [NoOp EXCEPT !.name = "exitChat", !.tenant = q.tenant,
                                        !.chatId = chatId, !.msg = nextId,
                                        !.user = userId, !.wrote = TRUE]
    /\ UNCHANGED <<sockTok, sockState, rooms, cusers, pend>>
    /\ UNCHANGED <<routerVars, sideVars>>


(***************************************************************************)
(* Part III. Key Derivation, Envelope Crypto and the repository hooks      *)
(***************************************************************************)

\* length of the authentication tag appended to a ciphertext
ABYTES == 16

\* longest plaintext, in UTF-16 code units
MaxLen == 3

\* the code units a JavaScript string is made of: "a" a character of one
\* UTF-8 byte, "H" a high surrogate, "L" a low surrogate, "R" U+FFFD
Units == {"a", "H", "L"}

RECURSIVE SeqsUpTo(_, _)
SeqsUpTo(S, n) ==
    IF n = 0 THEN {<<>>}
    ELSE LET shorter == SeqsUpTo(S, n - 1)
         IN shorter \cup {Append(q, x) : q \in {r \in shorter : Len(r) = n - 1}, x \in S}

Plaintexts == SeqsUpTo(Units, MaxLen)

Tail2(q) == SubSeq(q, 3, Len(q))

\* Buffer.from(plaintext, "utf-8"): a surrogate pair becomes one four-byte
\* sequence, an unpaired surrogate becomes the three bytes of U+FFFD
RECURSIVE Utf8(_)
Utf8(q) ==
    IF q = <<>> THEN <<>>
    ELSE IF q[1] = "a" THEN <<97>> \o Utf8(Tail(q))
    ELSE IF q[1] = "H" /\ Len(q) >= 2 /\ q[2] = "L"
         THEN <<240, 159, 152, 128>> \o Utf8(Tail2(q))
    ELSE <<239, 191, 189>> \o Utf8(Tail(q))

\* message.toString("utf-8")
RECURSIVE FromUtf8(_)
FromUtf8(b) ==
    IF b = <<>> THEN <<>>
    ELSE IF b[1] = 97 THEN <<"a">> \o FromUtf8(Tail(b))
    ELSE IF Len(b) >= 4 /\ SubSeq(b, 1, 4) = <<240, 159, 152, 128>>
         THEN <<"H", "L">> \o FromUtf8(SubSeq(b, 5, Len(b)))
    ELSE IF Len(b) >= 3 /\ SubSeq(b, 1, 3) = <<239, 191, 189>>
         THEN <<"R">> \o FromUtf8(SubSeq(b, 4, Len(b)))
    ELSE <<"R">> \o FromUtf8(Tail(b))

HexDigits == <<"0", "1", "2", "3", "4", "5", "6", "7", "8", "9",
               "a", "b", "c", "d", "e", "f">>

HexValue(ch) == (CHOOSE i \in 1..16 : HexDigits[i] = ch) - 1

\* buffer.toString("hex")
RECURSIVE ToHex(_)
ToHex(b) ==
    IF b = <<>> THEN <<>>
    ELSE <<HexDigits[(b[1] \div 16) + 1], HexDigits[(b[1] % 16) + 1]>> \o ToHex(Tail(b))

\* Buffer.from(text, "hex"): decoding stops at the first pair that is not hex
RECURSIVE FromHex(_)
FromHex(h) ==
    IF Len(h) < 2 \/ h[1] \notin Range(HexDigits) \/ h[2] \notin Range(HexDigits)
    THEN <<>>
    ELSE <<HexValue(h[1]) * 16 + HexValue(h[2])>> \o FromHex(Tail2(h))

RECURSIVE Sum(_)
Sum(b) == IF b = <<>> THEN 0 ELSE b[1] + Sum(Tail(b))

\* the secrets of a tenant: salt and nonce of the tenant's key-vault entry, and
\* the encryption password, which is the same for every tenant
Secrets(t) ==
    IF t = "T1" THEN [salt |-> 1, nonce |-> 2, encryptionPassword |-> 5]
    ELSE [salt |-> 3, nonce |-> 4, encryptionPassword |-> 5]

\* deriveKey(password, salt): deterministic in both, cached or not
DeriveKey(password, salt) == (password * 16 + salt) % 256

\* crypto_aead_xchacha20poly1305_ietf_encrypt: the message under the key
\* stream of (key, nonce), followed by a tag over the ciphertext
Keystream(i, nonce, key) == (key * 7 + nonce * 3 + i) % 256

AeadTag(c, nonce, key) ==
    [i \in 1..ABYTES |-> (Sum(c) + key * 5 + nonce + i) % 256]

AeadEncrypt(m, nonce, key) ==
    LET c == [i \in 1..Len(m) |-> (m[i] + Keystream(i, nonce, key)) % 256]
    IN c \o AeadTag(c, nonce, key)

\* crypto_aead_xchacha20poly1305_ietf_decrypt into a buffer of
\* ciphertext.length - ABYTES bytes: fails when that length is negative or the
\* tag does not verify
\* (UnmaskFixed: the key stream not advanced with the position)
UnmaskFixed(c, nonce, key) ==
    [i \in 1..Len(c) |-> (c[i] + 256 - Keystream(1, nonce, key)) % 256]

Unmask(c, nonce, key) ==
    [i \in 1..Len(c) |-> (c[i] + 256 - Keystream(i, nonce, key)) % 256]

AeadDecrypt(ct, nonce, key) ==
    IF Len(ct) < ABYTES THEN [ok |-> FALSE, message |-> <<>>]
    ELSE LET c == SubSeq(ct, 1, Len(ct) - ABYTES)
             tag == SubSeq(ct, Len(ct) - ABYTES + 1, Len(ct))
         IN IF tag = AeadTag(c, nonce, key)
            THEN [ok |-> TRUE, message |-> Unmask(c, nonce, key)]
            ELSE [ok |-> FALSE, message |-> <<>>]

\* encryptDataWithNonce(plaintext, salt, nonce, encryptionPassword)
EncryptDataWithNonce(plaintext, salt, nonce, encryptionPassword) ==
    ToHex(AeadEncrypt(Utf8(plaintext), nonce, DeriveKey(encryptionPassword, salt)))

\* decryptDataWithNonce(ciphertextHex, nonceHex, salt, encryptionPassword) on a
\* cache miss or without a cache key: ok = FALSE when it throws
DecryptDataWithNonce(ciphertextHex, nonce, salt, encryptionPassword) ==
    LET r == AeadDecrypt(FromHex(ciphertextHex), nonce,
                         DeriveKey(encryptionPassword, salt))
    IN [ok |-> r.ok, value |-> FromUtf8(r.message)]

\* no repository or crypto call has been made
NoRes == [name |-> "none", tenant |-> "", plain |-> <<>>, cipher |-> <<>>, ok |-> TRUE,
          out |-> <<>>, id |-> None, secrets |-> FALSE, docs |-> <<>>]

\* a caller holding the plaintext p of tenant t encrypts it
EncryptCall ==
    /\ res.name = "input"
    /\ LET k == Secrets(res.tenant)
       IN res' = [res EXCEPT !.name = "encrypted",
                             !.cipher = EncryptDataWithNonce(res.plain, k.salt, k.nonce,
                                                             k.encryptionPassword)]
    /\ UNCHANGED <<mdocs, dcache, clock>>
    /\ UNCHANGED <<routerVars, sockTok, sockState, rooms, cusers, chats, msgs, nextId,
                   emits, op, pend, ccall, cred, dpend>>

\* and decrypts the result under the secrets of tenant t2
DecryptCall(t2) ==
    /\ res.name = "encrypted"
    /\ LET k == Secrets(t2)
           r == DecryptDataWithNonce(res.cipher, k.nonce, k.salt, k.encryptionPassword)
       IN res' = [res EXCEPT !.name = "decrypted", !.ok = r.ok, !.out = r.value,
                             !.tenant = IF t2 = res.tenant THEN t2 ELSE "other"]
    /\ UNCHANGED <<mdocs, dcache, clock>>
    /\ UNCHANGED <<routerVars, sockTok, sockState, rooms, cusers, chats, msgs, nextId,
                   emits, op, pend, ccall, cred, dpend>>

\* ---- the Message repository: pre("save"), pre(update) and post(find)
\* ---- hooks of messageSchema (those of chatSchema are the same on name) ----

\* number of Message documents of the repository
MaxDocs == 2

\* the time stops here: at most MaxClock - 1 writes
MaxClock == 4

\* the bodies clients send
Bodies == {<<"a">>, <<"H", "L">>}

\* the tenant context of a call: requestContext.get().tenantId, "" when absent
RepoContexts == {"", "T1"}

\* the shapes of an update carrying a body: {body}, {$set: {body}},
\* {$push: {body}}, {$addToSet: {body}}, {$push: {$each: [{body}]}},
\* {$addToSet: {$each: [{body}]}}
UpdateShapes == {"top", "$set", "$push", "$addToSet", "$push.$each", "$addToSet.$each"}

\* the projections of a read: every field, or .select("body createdAt")
Projections == {"full", "body createdAt"}

\* the hooks work when the context has a tenant and
\* getEncryptionSecretsByTenantId returned its secrets (null: secretsOk FALSE)
HooksActive(ctx, secretsOk) == ctx # "" /\ secretsOk

\* pre("save") and the update pre-hook: the value persisted for body
EncryptOnWrite(ctx, secretsOk, body) ==
    IF HooksActive(ctx, secretsOk) /\ body # <<>>
    THEN EncryptDataWithNonce(body, Secrets(ctx).salt, Secrets(ctx).nonce,
                              Secrets(ctx).encryptionPassword)
    ELSE body

\* generateCacheKey("body", doc.tenantId, doc._id, "chats", doc.updatedAt) on a
\* document read with the projection: a field not selected is undefined and
\* joins as the empty string
GenerateCacheKey(id, doc, projection) ==
    <<IF projection = "full" THEN doc.tenantId ELSE "", "chats", id, "body",
      IF projection = "full" THEN doc.updatedAt ELSE None>>

CacheHit(cache, key) == \E e \in cache : e.key = key

CacheGet(cache, key) == (CHOOSE e \in cache : e.key = key).value

CacheSet(cache, key, value) ==
    {e \in cache : e.key # key} \cup {[key |-> key, value |-> value]}

\* decryptFields(doc) of the post(find) hook: the body returned, whether the
\* decryption threw, and the cache afterwards
DecryptFields(cache, id, doc, ctx, projection) ==
    IF doc.body = <<>> THEN [ok |-> TRUE, body |-> doc.body, cache |-> cache]
    ELSE LET key == GenerateCacheKey(id, doc, projection)
         IN IF CacheHit(cache, key)
            THEN [ok |-> TRUE, body |-> CacheGet(cache, key), cache |-> cache]
            ELSE LET r == DecryptDataWithNonce(doc.body, Secrets(ctx).nonce,
                                               Secrets(ctx).salt,
                                               Secrets(ctx).encryptionPassword)
                 IN IF r.ok
                    THEN [ok |-> TRUE, body |-> r.value,
                          cache |-> CacheSet(cache, key, r.value)]
                    ELSE [ok |-> FALSE, body |-> doc.body, cache |-> cache]

\* the post(find) hook over the documents ids (in order): it stops at the
\* first document whose decryption throws and fails the query
RECURSIVE PostFind(_, _, _, _)
PostFind(cache, ids, ctx, projection) ==
    IF ids = <<>> THEN [ok |-> TRUE, docs |-> <<>>, cache |-> cache]
    ELSE LET d == DecryptFields(cache, ids[1], mdocs[ids[1]], ctx, projection)
         IN IF ~d.ok THEN [ok |-> FALSE, docs |-> <<>>, cache |-> d.cache]
            ELSE LET rest == PostFind(d.cache, Tail(ids), ctx, projection)
                 IN [ok |-> rest.ok,
                     docs |-> IF rest.ok THEN <<[id |-> ids[1], body |-> d.body]>> \o rest.docs
                              ELSE <<>>,
                     cache |-> rest.cache]

RepoUnchanged ==
    UNCHANGED <<routerVars, sockTok, sockState, rooms, cusers, chats, msgs, nextId,
                emits, op, pend, ccall, cred, dpend>>

\* Message.create({body, tenantId}) under context ctx
CreateMessage(ctx, secretsOk, body) ==
    /\ Len(mdocs) < MaxDocs
    /\ clock < MaxClock
    /\ mdocs' = Append(mdocs, [body |-> EncryptOnWrite(ctx, secretsOk, body),
                               updatedAt |-> clock, tenantId |-> "T1"])
    /\ clock' = clock + 1
    /\ res' = [NoRes EXCEPT !.name = "create", !.tenant = ctx, !.plain = body,
                            !.id = Len(mdocs) + 1, !.secrets = secretsOk]
    /\ UNCHANGED dcache
    /\ RepoUnchanged

\* Message.findOneAndUpdate / updateOne / updateMany({_id: id}, update) with an
\* update of the given shape carrying body
UpdateMessage(id, ctx, secretsOk, shape, body) ==
    /\ id \in DOMAIN mdocs
    /\ clock < MaxClock
    /\ mdocs' = [mdocs EXCEPT ![id].body = EncryptOnWrite(ctx, secretsOk, body),
                              ![id].updatedAt = clock]
    /\ clock' = clock + 1
    /\ res' = [NoRes EXCEPT !.name = "update", !.tenant = ctx, !.plain = body, !.id = id,
                            !.secrets = secretsOk, !.cipher = <<shape>>]
    /\ UNCHANGED dcache
    /\ RepoUnchanged

\* Message.findOne({_id: id}).select(projection)
FindOne(id, ctx, secretsOk, projection) ==
    /\ id \in DOMAIN mdocs
    /\ IF HooksActive(ctx, secretsOk)
       THEN LET d == DecryptFields(dcache, id, mdocs[id], ctx, projection)
            IN /\ dcache' = d.cache
               /\ res' = [NoRes EXCEPT !.name = "findOne", !.tenant = ctx, !.id = id,
                                       !.secrets = TRUE, !.ok = d.ok, !.out = d.body,
                                       !.cipher = <<projection>>]
       ELSE /\ res' = [NoRes EXCEPT !.name = "findOne", !.tenant = ctx, !.id = id,
                                    !.out = mdocs[id].body, !.cipher = <<projection>>]
            /\ UNCHANGED dcache
    /\ UNCHANGED <<mdocs, clock>>
    /\ RepoUnchanged

\* Message.find({}): every document of the repository
Find(ctx, secretsOk) ==
    /\ mdocs # <<>>
    /\ IF HooksActive(ctx, secretsOk)
       THEN LET r == PostFind(dcache, [i \in 1..Len(mdocs) |-> i], ctx, "full")
            IN /\ dcache' = r.cache
               /\ res' = [NoRes EXCEPT !.name = "find", !.tenant = ctx, !.secrets = TRUE,
                                       !.ok = r.ok, !.docs = r.docs]
       ELSE /\ res' = [NoRes EXCEPT !.name = "find", !.tenant = ctx,
                          !.docs = [i \in 1..Len(mdocs) |->
                                       [id |-> i, body |-> mdocs[i].body]]]
            /\ UNCHANGED dcache
    /\ UNCHANGED <<mdocs, clock>>
    /\ RepoUnchanged

\* REST editMessage: Message.findOne, message.body = content, message.save(),
\* then messageEdited with content: message.body, the body of the saved
\* document, which the pre("save") hook has rewritten in place (res.out)
EditMessage(id, ctx, secretsOk, content) ==
    /\ id \in DOMAIN mdocs
    /\ clock < MaxClock
    /\ LET d == IF HooksActive(ctx, secretsOk)
                THEN DecryptFields(dcache, id, mdocs[id], ctx, "full")
                ELSE [ok |-> TRUE, body |-> mdocs[id].body, cache |-> dcache]
       IN /\ dcache' = d.cache
          /\ IF d.ok
             THEN /\ mdocs' = [mdocs EXCEPT
                                 ![id].body = EncryptOnWrite(ctx, secretsOk, content),
                                 ![id].updatedAt = clock]
                  /\ clock' = clock + 1
             ELSE UNCHANGED <<mdocs, clock>>
          /\ res' = [NoRes EXCEPT !.name = "editMessage", !.tenant = ctx, !.id = id,
                                  !.plain = content, !.secrets = secretsOk, !.ok = d.ok,
                                  !.out = IF d.ok
                                          THEN EncryptOnWrite(ctx, secretsOk, content)
                                          ELSE <<>>]
    /\ RepoUnchanged

(***************************************************************************)
(* Initial states and specifications                                       *)
(***************************************************************************)

\* no chat-creation call is in progress
RepoIdle ==
    /\ mdocs = <<>>
    /\ dcache = {}
    /\ clock = 1

SideInit ==
    /\ ccall = [p \in Procs |-> NoCreate]
    /\ dpend = [s \in Socks |-> NoDisc]
    /\ RepoIdle
    /\ res = NoRes

\* the stores after chat creation: tenant T1 holds chat c1, tenant T2 holds
\* chat c2, each between the two users, whose ChatUser documents carry the
\* schema defaults
StoreInit ==
    /\ cusers = [t \in Tenants |-> [u \in Users |-> [socketIds |-> <<>>, active |-> FALSE]]]
    /\ chats = [t \in Tenants |->
                  IF t = "T1"
                  THEN ("c1" :> [participants |-> Users, lastMessage |-> None, chatType |-> "Direct",
                         tenantId |-> t])
                  ELSE ("c2" :> [participants |-> Users, lastMessage |-> None, chatType |-> "Direct",
                         tenantId |-> t])]
    /\ msgs = [t \in Tenants |-> <<>>]
    /\ nextId = 1

SyncInit(tok) ==
    /\ sockTok = tok
    /\ sockState = [s \in Socks |-> "new"]
    /\ rooms = [s \in Socks |-> {}]
    /\ StoreInit
    /\ emits = {}
    /\ op = NoOp
    /\ pend = [s \in Socks |-> NoPend]
    /\ cred = [s \in Socks |-> NoCred]
    /\ SideInit

\* no client connects
SyncIdle == SyncInit([s \in Socks |-> NoTok])

\* one device of u1 and one of u2, both of tenant T1
OneTenantTokens ==
    [s \in Socks |-> CASE s = "s1" -> [user |-> "u1", tenant |-> "T1"]
                       [] s = "s2" -> [user |-> "u2", tenant |-> "T1"]
                       [] OTHER -> NoTok]

\* the state after every socket holding a token has connected and joined
JoinedInit(tok) ==
    /\ sockTok = tok
    /\ sockState = [s \in Socks |-> IF tok[s] = NoTok THEN "new" ELSE "open"]
    /\ rooms = [s \in Socks |->
                  IF tok[s] = NoTok THEN {}
                  ELSE IF tok[s].tenant = "T1" THEN {"c1"} ELSE {"c2"}]
    /\ cusers = [t \in Tenants |-> [u \in Users |->
                  LET mine == {s \in Socks : tok[s] = [user |-> u, tenant |-> t]}
                  IN IF mine = {} THEN [socketIds |-> <<>>, active |-> FALSE]
                     ELSE [socketIds |-> <<CHOOSE s \in mine : TRUE>>, active |-> TRUE]]]
    /\ chats = [t \in Tenants |->
                  IF t = "T1"
                  THEN ("c1" :> [participants |-> Users, lastMessage |-> None, chatType |-> "Direct",
                         tenantId |-> t])
                  ELSE ("c2" :> [participants |-> Users, lastMessage |-> None, chatType |-> "Direct",
                         tenantId |-> t])]
    /\ msgs = [t \in Tenants |-> <<>>]
    /\ nextId = 1
    /\ emits = {}
    /\ op = NoOp
    /\ pend = [s \in Socks |-> NoPend]
    /\ cred = [s \in Socks |-> IF tok[s] = NoTok THEN NoCred
                            ELSE [header |-> "bearer", verdict |-> "valid",
                                  tenant |-> tok[s].tenant]]
    /\ SideInit

\* one device of u1 in tenant T1 and one of u2 in tenant T2
TwoTenantTokens ==
    [s \in Socks |-> CASE s = "s1" -> [user |-> "u1", tenant |-> "T1"]
                       [] s = "s2" -> [user |-> "u2", tenant |-> "T2"]
                       [] OTHER -> NoTok]

Init == RouterInit /\ JoinedInit(OneTenantTokens)

\* sending and reading in chat c1, every handler run to completion
Next ==
    \/ \E p \in Principals, u \in Users : SendMessage(p, "", "c1", u)
    \/ \E s \in LiveSockets : DirectMessage(s, "c1")
    \/ \E s \in LiveSockets, m \in MsgIds, u \in Users, ok \in BOOLEAN :
          MarkMessageAsRead(s, "c1", m, u, ok)
    \/ \E s \in LiveSockets, u \in Users : MarkAllMessagesAsRead(s, "c1", u)

Spec == Init /\ [][Next]_vars

\* the same with the event loop running: a handler that can run does run
SpecLive == Init /\ [][Next]_vars /\ WF_vars(Next)

\* the unread badge: messages of either user arrive in chat c1 over REST,
\* each device marks them read for its own user, and the device Hider hides
\* them for its user
Hider == "s2"

NextUnread ==
    \/ \E p \in Principals, u \in Users : SendMessage(p, "", "c1", u)
    \/ \E s \in LiveSockets, m \in MsgIds :
          MarkMessageAsRead(s, "c1", m, sockTok[s].user, TRUE)
    \/ \E s \in LiveSockets : MarkAllMessagesAsRead(s, "c1", sockTok[s].user)
    \/ \E m \in MsgIds : DeleteMessage(Hider, m, "c1", sockTok[Hider].user, "forMe")

SpecUnread == Init /\ [][NextUnread]_vars

\* reactions to the messages of chat c1
NextReact ==
    \/ \E p \in Principals : SendMessage(p, "", "c1", p.user)
    \/ \E s \in LiveSockets, m \in MsgIds, e \in Emojis :
          AddReaction(s, m, "c1", e, TRUE)

SpecReact == Init /\ [][NextReact]_vars

\* reactions with the event loop running and an Identity Resolver that may not
\* answer
NextReactLive ==
    \/ \E q \in Principals : SendMessage(q, "", "c1", q.user)
    \/ \E s \in LiveSockets, m \in MsgIds, e \in Emojis, ok \in BOOLEAN :
          AddReaction(s, m, "c1", e, ok)

SpecReactLive == Init /\ [][NextReactLive]_vars /\ WF_vars(NextReactLive)

\* concurrent reactions: the addReaction handlers of the two participants of
\* chat c1 are suspended between Message.findById and message.save()
NextReactRace ==
    \/ \E q \in Principals : SendMessage(q, "", "c1", q.user)
    \/ \E s \in LiveSockets, m \in MsgIds, e \in Emojis : AddReactionLoad(s, m, "c1", e)
    \/ \E s \in LiveSockets : AddReactionSave(s, TRUE)

SpecReactRace == Init /\ [][NextReactRace]_vars

\* reading while the store may reject a call
NextFault ==
    \/ \E q \in Principals : SendMessage(q, "", "c1", q.user)
    \/ \E s \in LiveSockets, m \in MsgIds :
          MarkMessageAsRead(s, "c1", m, sockTok[s].user, TRUE)
    \/ \E s \in LiveSockets, m \in MsgIds, fault \in Faults, q \in Users :
          MarkMessageAsReadFault(s, "c1", m, sockTok[s].user, fault, q)

SpecFault == Init /\ [][NextFault]_vars

\* deletion of the messages of chat c1 over the socket and over REST
NextDelete ==
    \/ \E p \in Principals : SendMessage(p, "", "c1", p.user)
    \/ \E s \in LiveSockets, m \in MsgIds, u \in Users, mode \in Modes :
          DeleteMessage(s, m, "c1", u, mode)
    \/ \E p \in Principals, m \in MsgIds, u \in Users, mode \in Modes :
          DeleteMessageRest(p, "", m, "c1", u, mode)

SpecDelete == Init /\ [][NextDelete]_vars

\* hiding and listing: messages arrive in chat c1, each device hides them for
\* its own user and fetches the history of the chat
NextHistory ==
    \/ \E q \in Principals : SendMessage(q, "", "c1", q.user)
    \/ \E s \in LiveSockets, m \in MsgIds :
          DeleteMessage(s, m, "c1", sockTok[s].user, "forMe")
    \/ \E s \in LiveSockets, page \in 1..2 : GetMessageHistory(s, "c1", page)

SpecHistory == Init /\ [][NextHistory]_vars

\* paging: chat c1 holds any number of messages up to MaxHistory, sent by u1,
\* and each device fetches any page up to MaxPage
MaxHistory == 25

MaxPage == 2

PagingInit ==
    /\ RouterInit
    /\ \E n \in 0..MaxHistory :
          /\ msgs = [t \in Tenants |->
                       IF t = "T1" THEN [id \in 1..n |-> NewMessage("c1", "u1", "T1")]
                       ELSE <<>>]
          /\ nextId = n + 1
          /\ chats = [t \in Tenants |->
                        IF t = "T1"
                        THEN ("c1" :> [participants |-> Users,
                                       lastMessage |-> IF n = 0 THEN None ELSE n,
                                       chatType |-> "Direct", tenantId |-> t])
                        ELSE ("c2" :> [participants |-> Users, lastMessage |-> None,
                                       chatType |-> "Direct", tenantId |-> t])]
    /\ sockTok = OneTenantTokens
    /\ sockState = [s \in Socks |-> IF OneTenantTokens[s] = NoTok THEN "new" ELSE "open"]
    /\ rooms = [s \in Socks |-> IF OneTenantTokens[s] = NoTok THEN {} ELSE {"c1"}]
    /\ cusers = [t \in Tenants |-> [u \in Users |->
                  LET mine == {s \in Socks : OneTenantTokens[s] = [user |-> u, tenant |-> t]}
                  IN IF mine = {} THEN [socketIds |-> <<>>, active |-> FALSE]
                     ELSE [socketIds |-> <<CHOOSE s \in mine : TRUE>>, active |-> TRUE]]]
    /\ emits = {}
    /\ op = NoOp
    /\ pend = [s \in Socks |-> NoPend]
    /\ cred = [s \in Socks |-> IF OneTenantTokens[s] = NoTok THEN NoCred
                            ELSE [header |-> "bearer", verdict |-> "valid",
                                  tenant |-> OneTenantTokens[s].tenant]]
    /\ SideInit

NextPaging ==
    \E s \in LiveSockets, page \in 1..MaxPage : GetMessageHistory(s, "c1", page)

SpecPaging == PagingInit /\ [][NextPaging]_vars

\* markMessageAsRead interleaved at its await between load and save; a
\* markAllMessagesAsRead carries the id of the socket's user or an id that is
\* no participant's
NextRace ==
    \/ \E p \in Principals : SendMessage(p, "", "c1", p.user)
    \/ \E s \in LiveSockets, m \in MsgIds :
          MarkMessageAsReadLoad(s, "c1", m, sockTok[s].user)
    \/ \E s \in LiveSockets : MarkMessageAsReadSave(s, TRUE)
    \/ \E s \in LiveSockets : \E u \in (Ids \ Users) \cup {sockTok[s].user} :
          MarkAllMessagesAsRead(s, "c1", u)

SpecRace == Init /\ [][NextRace]_vars

\* two tenants served by one process; a REST request carries no x-context-id
\* header or the id of the other tenant
IsoInit == RouterInit /\ JoinedInit(TwoTenantTokens)

NextIso ==
    \/ \E p \in Principals : \E ctx \in Contexts \ {p.tenant}, c \in Chats :
          SendMessage(p, ctx, c, p.user)
    \/ \E s \in LiveSockets, c \in Chats : DirectMessage(s, c)
    \/ \E s \in LiveSockets, c \in Chats, m \in MsgIds :
          MarkMessageAsRead(s, c, m, sockTok[s].user, TRUE)
    \/ \E s \in LiveSockets, c \in Chats : MarkAllMessagesAsRead(s, c, sockTok[s].user)
    \/ \E p \in Principals : \E ctx \in Contexts \ {p.tenant}, c \in Chats, m \in MsgIds,
                                 mode \in Modes :
          DeleteMessageRest(p, ctx, m, c, p.user, mode)

SpecIso == IsoInit /\ [][NextIso]_vars

\* chat creation for the pairs that have no chat yet, each handler suspended
\* between its Chat.findOne and its Chat.create
NextCreate ==
    \/ \E p \in Procs, entry \in RestCreators, tok \in Principals :
          \E contact \in Ids \ {tok.user} :
             CreateChatFind(p, entry, "", tok.tenant, tok.user, contact)
    \/ \E p \in Procs, s \in LiveSockets : \E contact \in Ids \ {sockTok[s].user} :
          CreateChatFind(p, "startChat", s, sockTok[s].tenant, sockTok[s].user, contact)
    \/ \E p \in Procs : CreateChatCreate(p)

SpecCreate == Init /\ [][NextCreate]_vars

\* no client has connected
IdleInit == RouterInit /\ SyncIdle

\* sessions: three devices shake hands presenting any credentials, join and
\* disconnect; a disconnect handler is suspended between its load and its save
NextSession ==
    \/ \E s \in Socks, c \in Creds, kvOk \in BOOLEAN : Connect(s, c, kvOk)
    \/ \E s \in LiveSockets : Join(s)
    \/ \E s \in LiveSockets : DisconnectLoad(s)
    \/ \E s \in Socks : DisconnectSave(s)

SpecSession == IdleInit /\ [][NextSession]_vars

\* sending to a chat whose members come and go: devices connect with valid
\* credentials, join, disconnect, and send to chat c1 over the socket and
\* over REST
ValidCred == [header |-> "bearer", verdict |-> "valid", tenant |-> "T1"]

NextSend ==
    \/ \E s \in Socks : Connect(s, ValidCred, TRUE)
    \/ \E s \in LiveSockets : Join(s)
    \/ \E s \in LiveSockets : Disconnect(s)
    \/ \E s \in LiveSockets : DirectMessage(s, "c1")
    \/ \E q \in Principals : SendMessage(q, "", "c1", q.user)

SpecSend == IdleInit /\ [][NextSend]_vars

\* the same with the event loop running: a handler that can run does run
SpecSendLive == IdleInit /\ [][NextSend]_vars /\ WF_vars(NextSend)

\* joining: a device of u1 and a device of u3, who has no ChatUser document
\* yet, have shaken hands in tenant T1; chats are created over REST and by
\* startChat, and the devices join
JoinTokens ==
    [s \in Socks |-> CASE s = "s1" -> [user |-> "u1", tenant |-> "T1"]
                       [] s = "s2" -> [user |-> "u3", tenant |-> "T1"]
                       [] OTHER -> NoTok]

JoinInit ==
    /\ RouterInit
    /\ sockTok = JoinTokens
    /\ sockState = [s \in Socks |-> IF JoinTokens[s] = NoTok THEN "new" ELSE "open"]
    /\ rooms = [s \in Socks |-> {}]
    /\ StoreInit
    /\ emits = {}
    /\ op = NoOp
    /\ pend = [s \in Socks |-> NoPend]
    /\ cred = [s \in Socks |-> IF JoinTokens[s] = NoTok THEN NoCred
                            ELSE [header |-> "bearer", verdict |-> "valid",
                                  tenant |-> JoinTokens[s].tenant]]
    /\ SideInit

NextJoin ==
    \/ \E s \in LiveSockets : Join(s)
    \/ \E p \in Procs, entry \in RestCreators, tok \in Principals :
          \E contact \in Ids \ {tok.user} :
             CreateChatFind(p, entry, "", tok.tenant, tok.user, contact)
    \/ \E p \in Procs, s \in LiveSockets : \E contact \in Ids \ {sockTok[s].user} :
          CreateChatFind(p, "startChat", s, sockTok[s].tenant, sockTok[s].user, contact)
    \/ \E p \in Procs : CreateChatCreate(p)

SpecJoin == JoinInit /\ [][NextJoin]_vars

\* groups: group chats are created and left over REST by the two users
NextGroup ==
    \/ \E q \in Principals, ps \in SUBSET Ids : CreateGroupChat(q, ps, q.user)
    \/ \E q \in Principals, c \in Range(ChatIdPool) \cup Chats, u \in Ids :
          ExitChat(q, c, u)

SpecGroup == Init /\ [][NextGroup]_vars

\* concurrent REST sends: two callers send to the chats of their tenants,
\* each suspended between its Message.create and its chat.save(), while the
\* participants' devices join and disconnect
NextSendRace ==
    \/ \E p \in Procs, q \in Principals, c \in Chats, u \in Users :
          SendMessageCreate(p, q, c, u)
    \/ \E p \in Procs : SendMessageSave(p)
    \/ \E s \in LiveSockets : Join(s)
    \/ \E s \in LiveSockets : Disconnect(s)

SpecSendRace == Init /\ [][NextSendRace]_vars

\* the envelope crypto alone: a plaintext of any tenant is encrypted, then
\* decrypted under the secrets of either tenant
CryptoInit ==
    /\ RouterInit
    /\ sockTok = [s \in Socks |-> NoTok]
    /\ sockState = [s \in Socks |-> "new"]
    /\ rooms = [s \in Socks |-> {}]
    /\ StoreInit
    /\ emits = {}
    /\ op = NoOp
    /\ pend = [s \in Socks |-> NoPend]
    /\ cred = [s \in Socks |-> NoCred]
    /\ ccall = [p \in Procs |-> NoCreate]
    /\ dpend = [s \in Socks |-> NoDisc]
    /\ RepoIdle
    /\ res \in {[NoRes EXCEPT !.name = "input", !.tenant = t, !.plain = q]
                : t \in Tenants, q \in Plaintexts}

NextCrypto ==
    \/ EncryptCall
    \/ \E t2 \in Tenants : DecryptCall(t2)

SpecCrypto == CryptoInit /\ [][NextCrypto]_vars

\* ---- the Redis keyspace behind cacheService ----

\* the key under which keyVault caches the salt and nonce of tenant t
SecretName(t) == IF t = "T1" THEN "tenant-T1-salt-nonce" ELSE "tenant-T2-salt-nonce"

\* the key under which deriveKey caches the key of tenant t: password:salt
DerivedCacheKey(t) ==
    <<ToString(Secrets(t).encryptionPassword), ToString(Secrets(t).salt)>>

\* the patterns handed to invalidateDecryptionCache: everything, or the keys
\* that start with a tenant id ("T1:*"); a key is its ":"-separated segments
CachePatterns == {<<"*">>} \cup {<<t, "*">> : t \in Tenants}

\* redis.keys(pattern): glob match of a pattern ending in "*"
Matches(pattern, key) ==
    /\ Len(key) >= Len(pattern) - 1
    /\ Len(key) >= 1
    /\ \A i \in 1..(Len(pattern) - 1) : key[i] = pattern[i]

\* cacheService.delPattern(pattern): every matching key is deleted
DelPattern(cache, pattern) == {e \in cache : ~Matches(pattern, e.key)}

CacheUnchanged == RepoUnchanged /\ UNCHANGED <<mdocs, clock>>

\* decryptDataWithNonce on a miss: the plaintext of document id of tenant t
\* is cached under generateCacheKey("body", t, id, "chats", updatedAt)
CacheDecrypted(t, id, body) ==
    /\ dcache' = CacheSet(dcache,
                          GenerateCacheKey(id, [tenantId |-> t, updatedAt |-> 1], "full"),
                          body)
    /\ res' = [NoRes EXCEPT !.name = "decryptDataWithNonce", !.tenant = t, !.id = id,
                            !.out = body]
    /\ CacheUnchanged

\* deriveKey on a miss: the derived key of tenant t is cached
CacheDerivedKey(t) ==
    /\ dcache' = CacheSet(dcache, DerivedCacheKey(t),
                          DeriveKey(Secrets(t).encryptionPassword, Secrets(t).salt))
    /\ res' = [NoRes EXCEPT !.name = "deriveKey", !.tenant = t]
    /\ CacheUnchanged

\* getValueFromKeyVault on a miss: the secret of tenant t is cached
CacheSecret(t) ==
    /\ dcache' = CacheSet(dcache, <<SecretName(t)>>, Secrets(t))
    /\ res' = [NoRes EXCEPT !.name = "getValueFromKeyVault", !.tenant = t]
    /\ CacheUnchanged

\* invalidateDecryptionCache(tenantId, pattern): tenantId is only logged
InvalidateDecryptionCache(t, pattern) ==
    /\ dcache' = DelPattern(dcache, pattern)
    /\ res' = [NoRes EXCEPT !.name = "invalidateDecryptionCache", !.tenant = t,
                            !.cipher = pattern]
    /\ CacheUnchanged

\* clearTenantPIICache(tenantId) == invalidateDecryptionCache(tenantId, "*")
ClearTenantPIICache(t) ==
    /\ dcache' = DelPattern(dcache, <<"*">>)
    /\ res' = [NoRes EXCEPT !.name = "clearTenantPIICache", !.tenant = t]
    /\ CacheUnchanged

NextCache ==
    \/ \E t \in Tenants, id \in 1..MaxDocs, body \in Bodies : CacheDecrypted(t, id, body)
    \/ \E t \in Tenants : CacheDerivedKey(t)
    \/ \E t \in Tenants : CacheSecret(t)
    \/ \E t \in Tenants, pattern \in CachePatterns : InvalidateDecryptionCache(t, pattern)
    \/ \E t \in Tenants : ClearTenantPIICache(t)

\* the Message repository: documents are created, updated, edited and read
\* with and without tenant context and secrets
RepoInit == RouterInit /\ SyncIdle

NextRepo ==
    \/ \E ctx \in RepoContexts, ok \in BOOLEAN, body \in Bodies : CreateMessage(ctx, ok, body)
    \/ \E id \in 1..MaxDocs, ctx \in RepoContexts, ok \in BOOLEAN, shape \in UpdateShapes,
           body \in Bodies : UpdateMessage(id, ctx, ok, shape, body)
    \/ \E id \in 1..MaxDocs, ctx \in RepoContexts, ok \in BOOLEAN, pr \in Projections :
          FindOne(id, ctx, ok, pr)
    \/ \E ctx \in RepoContexts, ok \in BOOLEAN : Find(ctx, ok)
    \/ \E id \in 1..MaxDocs, ctx \in RepoContexts, ok \in BOOLEAN, body \in Bodies :
          EditMessage(id, ctx, ok, body)

SpecRepo == RepoInit /\ [][NextRepo]_vars

\* the cache alone: values are cached and invalidated
SpecCache == RepoInit /\ [][NextCache]_vars

\* the router alone: no client connects
SpecRouter == IdleInit /\ [][RouterNext]_vars

\* the router with stores that may never open
ResolveNext ==
    \/ RouterNext
    \/ \E p \in Procs : KvOkOpenFails(p)

SpecResolve == IdleInit /\ [][ResolveNext]_vars

(***************************************************************************)
(* Properties                                                              *)
(***************************************************************************)

C2_SingleConnection == \A t \in Tenants : opened[t] <= 1

\* C3: once two markMessageAsRead handlers on the same message have both
\* completed, the stored viewers hold both participants the handlers were
\* issued for.
C3_RacingReadsConverge ==
    \A s1 \in Socks, s2 \in Socks :
        (/\ s1 # s2
         /\ pend[s1].phase = "done"
         /\ pend[s2].phase = "done"
         /\ pend[s1].msg = pend[s2].msg
         /\ SocketStore(s1) = SocketStore(s2)
         /\ pend[s1].msg \in DOMAIN msgs[SocketStore(s1)])
        => {pend[s1].user, pend[s2].user}
              \subseteq Range(msgs[SocketStore(s1)][pend[s1].msg].viewers)

\* C4: when a directMessage handler that created a message completes, every
\* other participant with a joined socket subscribed to the chat's room is in
\* the message's stored viewers and a messageRead event for that participant
\* and message has been emitted.
C4_DirectMessageAutoRead ==
    (op.name = "directMessage" /\ op.msg # None) =>
        \A s \in LiveSockets :
            LET p2 == sockTok[s].user
            IN (/\ p2 # op.user
                /\ p2 \in chats[op.tenant][op.chatId].participants
                /\ p2 \in DOMAIN cusers[op.tenant]
                /\ s \in Range(cusers[op.tenant][p2].socketIds)
                /\ op.chatId \in rooms[s])
               => /\ p2 \in Range(msgs[op.tenant][op.msg].viewers)
                  /\ \E e \in emits :
                        e.ev = "messageRead" /\ e.msg = op.msg /\ e.user = p2

\* C5: every unreadCountUpdate emitted to participant u by a send, mark-read
\* or mark-all-read handler carries the number of messages of that chat whose
\* sender is not u, whose viewers do not hold u and that are not hidden for u,
\* counted on the store as the handler leaves it.
C5_UnreadCountFormula ==
    op.name \in {"sendMessage", "directMessage", "markMessageAsRead",
                 "markAllMessagesAsRead"} =>
        \A e \in emits :
            e.ev = "unreadCountUpdate" =>
                e.val = Cardinality({id \in DOMAIN msgs[op.tenant] :
                            LET m == msgs[op.tenant][id]
                            IN /\ m.chatId = e.chatId
                               /\ m.senderId # e.user
                               /\ \A i \in DOMAIN m.viewers : m.viewers[i] # e.user
                               /\ \A i \in DOMAIN m.deletedFor : m.deletedFor[i] # e.user})

\* C5 witness: a mark-read handler has emitted a count of no remaining unread
\* message to a participant for whom another unviewed message is hidden
C5_Witness ==
    /\ op.name = "markMessageAsRead"
    /\ op.wrote
    /\ \E e \in emits : e.ev = "unreadCountUpdate" /\ e.val = 0 /\ e.user = op.user
    /\ \E id \in DOMAIN msgs[op.tenant] :
          /\ HiddenFor(msgs[op.tenant][id], op.user)
          /\ op.user \notin Range(msgs[op.tenant][id].viewers)
          /\ msgs[op.tenant][id].senderId # op.user

\* C6: a markMessageAsRead for a participant who is already a viewer of the
\* message (through an earlier markMessageAsRead or markAllMessagesAsRead)
\* performs no persisted write, and after any markMessageAsRead or
\* markAllMessagesAsRead the participant has at most one entry in the viewers
\* of every message, exactly one in the message marked.
C6_MarkReadIdempotent ==
    [][/\ (op'.name = "markMessageAsRead" /\ op'.msg # None) =>
            LET old == msgs[op'.tenant][op'.msg].viewers
                new == msgs'[op'.tenant][op'.msg].viewers
            IN /\ Cardinality({i \in DOMAIN new : new[i] = op'.user}) = 1
               /\ op'.user \in Range(old) => (msgs' = msgs /\ ~op'.wrote)
       /\ op'.name \in {"markMessageAsRead", "markAllMessagesAsRead"} =>
            \A id \in DOMAIN msgs'[op'.tenant] :
                LET new == msgs'[op'.tenant][id].viewers
                IN Cardinality({i \in DOMAIN new : new[i] = op'.user}) <= 1
    ]_vars

\* C6 witness: a second markMessageAsRead for a viewer has completed without a write
C6_Witness ==
    /\ op.name = "markMessageAsRead"
    /\ op.msg # None
    /\ ~op.wrote
    /\ op.user \in Range(msgs[op.tenant][op.msg].viewers)

\* C7: no step decreases the size of the stored viewer set of a message that
\* exists before and after the step.
C7_ViewersNeverShrink ==
    [][\A t \in Tenants : \A id \in DOMAIN msgs[t] \cap DOMAIN msgs'[t] :
          Cardinality(Range(msgs'[t][id].viewers))
              >= Cardinality(Range(msgs[t][id].viewers))
    ]_vars

\* C8: every message holds at most one reaction per participant; after an
\* addReaction of participant u the message holds exactly u's reaction with
\* the emoji just sent, none from u when the emoji is empty, and the
\* reactions of the other participants are as they were.
C8_ReactionLastWriteWins ==
    [][/\ \A t \in Tenants : \A id \in DOMAIN msgs'[t] : \A u \in Users :
            LET rs == msgs'[t][id].reactions
            IN Cardinality({i \in DOMAIN rs : rs[i].userId = u}) <= 1
       /\ (op'.name = "addReaction" /\ op'.msg # None) =>
            LET old == msgs[op'.tenant][op'.msg].reactions
                new == msgs'[op'.tenant][op'.msg].reactions
                Of(rs, u) == {rs[i].emoji : i \in {j \in DOMAIN rs : rs[j].userId = u}}
            IN /\ Of(new, op'.user) = IF op'.mode = "" THEN {} ELSE {op'.mode}
               /\ \A u \in Users \ {op'.user} : Of(new, u) = Of(old, u)
    ]_vars

\* C8 witness: an empty emoji has removed the participant's reaction while the
\* other participant's reaction stays
C8_Witness ==
    /\ op.name = "addReaction"
    /\ op.msg # None
    /\ op.mode = ""
    /\ op.wrote
    /\ Len(msgs[op.tenant][op.msg].reactions) = 1

\* C9: a deleteMessage with mode forEveryone sent over the connection of a
\* participant who is not the message's sender leaves the stored messages
\* unchanged and emits no messageDeleted event.
C9_ForEveryoneSenderOnly ==
    [][(/\ op'.name = "deleteMessage"
        /\ op'.mode \in {"forEveryone", "denied"}
        /\ op'.msg # None
        /\ op'.msg \in DOMAIN msgs[op'.tenant]
        /\ sockTok[op'.sock].user # msgs[op'.tenant][op'.msg].senderId)
       => /\ msgs' = msgs
          /\ \A e \in emits' : e.ev # "messageDeleted"
    ]_vars

\* C10: when a participant deletes with mode forMe the latest message of a
\* chat, which they sent, the chat's lastMessage afterwards references the
\* most recent message of the chat that is not hidden for them, and is
\* unchanged when there is no such message.
C10_ForMeAdvancesLastMessage ==
    [][(/\ op'.name \in {"deleteMessage", "deleteMessageRest"}
        /\ op'.mode = "forMe"
        /\ op'.msg # None
        /\ op'.msg \in DOMAIN msgs[op'.tenant]
        /\ msgs[op'.tenant][op'.msg].senderId = op'.user
        /\ \A id \in DOMAIN msgs[op'.tenant] :
              msgs[op'.tenant][id].chatId = op'.chatId => id <= op'.msg)
       => LET ms == msgs'[op'.tenant]
              visible == {id \in DOMAIN ms :
                            /\ ms[id].chatId = op'.chatId
                            /\ \A i \in DOMAIN ms[id].deletedFor :
                                  ms[id].deletedFor[i] # op'.user}
          IN chats'[op'.tenant][op'.chatId].lastMessage =
                IF visible = {} THEN chats[op'.tenant][op'.chatId].lastMessage
                ELSE CHOOSE id \in visible : \A other \in visible : other <= id
    ]_vars

\* C10 as stated: that deletion leaves the chat's lastMessage unchanged
C10_ForMeKeepsLastMessage ==
    [][(/\ op'.name \in {"deleteMessage", "deleteMessageRest"}
        /\ op'.mode = "forMe"
        /\ op'.msg # None
        /\ op'.msg \in DOMAIN msgs[op'.tenant]
        /\ msgs[op'.tenant][op'.msg].senderId = op'.user
        /\ \A id \in DOMAIN msgs[op'.tenant] :
              msgs[op'.tenant][id].chatId = op'.chatId => id <= op'.msg)
       => chats'[op'.tenant][op'.chatId].lastMessage
              = chats[op'.tenant][op'.chatId].lastMessage
    ]_vars

\* C10 witness: the sender has hidden their latest message and the chat's
\* lastMessage references an earlier one
C10_Witness ==
    /\ op.name \in {"deleteMessage", "deleteMessageRest"}
    /\ op.mode = "forMe"
    /\ op.msg # None
    /\ op.msg \in DOMAIN msgs[op.tenant]
    /\ msgs[op.tenant][op.msg].senderId = op.user
    /\ HiddenFor(msgs[op.tenant][op.msg], op.user)
    /\ chats[op.tenant][op.chatId].lastMessage # None
    /\ chats[op.tenant][op.chatId].lastMessage < op.msg

\* C11: in every reachable state no tenant's store holds two chats of type
\* Direct with the same two participants.
C11_OneDirectChatPerPair ==
    \A t \in Tenants : \A c \in DOMAIN chats[t], d \in DOMAIN chats[t] :
        (/\ c # d
         /\ chats[t][c].chatType = "Direct"
         /\ chats[t][d].chatType = "Direct"
         /\ Cardinality(chats[t][c].participants) = 2)
        => chats[t][c].participants # chats[t][d].participants

C13_DisconnectRemovesHandle ==
    [][(op'.name = "disconnect" /\ op'.user # "") =>
          LET t == op'.tenant
              old == cusers[t][op'.user]
              new == cusers'[t][op'.user]
          IN /\ op'.sock \notin Range(new.socketIds)
             /\ \A h \in Range(old.socketIds) \ {op'.sock} : h \in Range(new.socketIds)
             /\ (new.active = FALSE) <=> (new.socketIds = <<>>)
    ]_vars

\* a string without unpaired surrogate
RECURSIVE WellFormed(_)
WellFormed(q) ==
    IF q = <<>> THEN TRUE
    ELSE IF q[1] = "H" THEN Len(q) >= 2 /\ q[2] = "L" /\ WellFormed(Tail2(q))
    ELSE q[1] # "L" /\ WellFormed(Tail(q))

\* C14: for every plaintext without unpaired surrogate and every tenant
\* secret, decrypting what encryptDataWithNonce returned under the same nonce,
\* salt and password succeeds and returns exactly the plaintext.
C14_RoundTripWellFormed ==
    (res.name = "decrypted" /\ res.tenant \in Tenants /\ WellFormed(res.plain))
        => (res.ok /\ res.out = res.plain)

\* C14 as stated: the same for every plaintext
C14_RoundTrip ==
    (res.name = "decrypted" /\ res.tenant \in Tenants)
        => (res.ok /\ res.out = res.plain)

\* C14 witness: a plaintext holding a surrogate pair between one-byte
\* characters has been encrypted and decrypted under the same secrets
C14_Witness ==
    /\ res.name = "decrypted"
    /\ res.tenant = "T2"
    /\ res.plain = <<"a", "H", "L">>
    /\ res.out = res.plain

\* C15: after a create or update made while a tenant context is present, the
\* value stored for a non-empty body is the ciphertext of the body under the
\* tenant's secrets, not the body itself.
C15_EncryptedAtRest ==
    (res.name \in {"create", "update", "editMessage"} /\ res.ok /\ res.tenant # ""
        /\ res.plain # <<>>)
    => /\ mdocs[res.id].body # res.plain
       /\ mdocs[res.id].body =
             ToHex(AeadEncrypt(Utf8(res.plain), Secrets(res.tenant).nonce,
                               DeriveKey(Secrets(res.tenant).encryptionPassword,
                                         Secrets(res.tenant).salt)))

\* C16: the body returned by a decrypting read of a document whose stored body
\* is a ciphertext of the tenant is the decryption of that stored ciphertext,
\* whatever the projection and whatever was cached before the last mutation.
C16_ReadReturnsCurrentValue ==
    (res.name = "findOne" /\ res.secrets /\ res.ok /\ mdocs[res.id].body # <<>>)
    => LET k == Secrets(res.tenant)
           r == AeadDecrypt(FromHex(mdocs[res.id].body), k.nonce,
                            DeriveKey(k.encryptionPassword, k.salt))
       IN r.ok => res.out = FromUtf8(r.message)

\* C17: a decrypting read of several documents returns every document, each
\* decryptable one with its decrypted body, whether or not the body of another
\* document fails to decrypt.
C17_BatchSurvivesFailure ==
    (res.name = "find" /\ res.secrets) =>
        /\ res.ok
        /\ Len(res.docs) = Len(mdocs)
        /\ \A i \in DOMAIN mdocs :
              LET k == Secrets(res.tenant)
                  r == AeadDecrypt(FromHex(mdocs[i].body), k.nonce,
                                   DeriveKey(k.encryptionPassword, k.salt))
              IN r.ok => res.docs[i].body = FromUtf8(r.message)

\* the live handles of participant u that are subscribed to the room of chatId
SubscribedHandles(t, u, chatId) ==
    {h \in LiveSockets : /\ u \in DOMAIN cusers[t]
                         /\ h \in Range(cusers[t][u].socketIds)
                         /\ chatId \in rooms[h]}

\* C18: a send that persists a message in a chat leaves every other
\* participant who has no joined handle subscribed to the chat's room out of
\* the message's viewers, emits no messageRead for that participant, and
\* raises that participant's unread count for the chat by exactly one.
C18_AbsentRecipientStaysUnread ==
    [][(op'.name \in {"directMessage", "sendMessage"} /\ op'.wrote) =>
          \A r \in chats["T1"][op'.chatId].participants \ {op'.user} :
             SubscribedHandles("T1", r, op'.chatId) = {} =>
                /\ r \notin Range(msgs'["T1"][op'.msg].viewers)
                /\ ~\E e \in emits' : e.ev = "messageRead" /\ e.user = r
                /\ GetUnreadCount(msgs'["T1"], op'.chatId, r, op'.tenant)
                     = GetUnreadCount(msgs["T1"], op'.chatId, r, op'.tenant) + 1]_vars

\* C18 witness: a directMessage has persisted a message while the other
\* participant had a connected device that had not joined, the second message
\* unread by that participant
C18_Witness ==
    /\ op.name = "directMessage"
    /\ op.wrote
    /\ op.user = "u1"
    /\ sockState["s3"] = "open"
    /\ SubscribedHandles("T1", "u2", "c1") = {}
    /\ GetUnreadCount(msgs["T1"], "c1", "u2", "T1") = 2

\* C19: when a markAllMessagesAsRead(chat, u) handler completes, every message
\* of the chat not sent by u has u among its viewers and the unread count of u
\* for the chat is 0.
C19_MarkAllReadsAll ==
    op.name = "markAllMessagesAsRead" =>
        LET ms == msgs[SocketStore(op.sock)]
        IN /\ \A id \in DOMAIN ms :
                 (ms[id].chatId = op.chatId /\ ms[id].senderId # op.user)
                    => op.user \in Range(ms[id].viewers)
           /\ GetUnreadCount(ms, op.chatId, op.user, op.tenant) = 0

\* C19 witness: a markAllMessagesAsRead has marked two messages at once
C19_Witness ==
    /\ op.name = "markAllMessagesAsRead"
    /\ op.wrote
    /\ Cardinality({id \in DOMAIN msgs["T1"] :
                      /\ msgs["T1"][id].senderId # op.user
                      /\ op.user \in Range(msgs["T1"][id].viewers)}) = 2

\* C20: every directMessage that persists a message is eventually followed by
\* messageSent events for that message to every live handle of every
\* participant of the chat, the sender's included.
C20_MessageSentEventually ==
    \A m \in MsgIds :
        (op.name = "directMessage" /\ op.wrote /\ op.msg = m)
        ~> (\A u \in chats["T1"]["c1"].participants :
              \A h \in LiveSockets :
                 (u \in DOMAIN cusers["T1"] /\ h \in Range(cusers["T1"][u].socketIds))
                 => \E e \in emits : e.ev = "messageSent" /\ e.msg = m /\ e.to = h)

\* C21: when a join of a connection of participant p completes, the
\* connection's handle is exactly once in p's socketIds and the connection is
\* subscribed to the room of every chat p is a participant of, whether or not
\* p had a ChatUser document before.
C21_JoinSubscribes ==
    (op.name = "join" /\ op.wrote) =>
        LET t == SocketStore(op.sock)
            ids == cusers[t][op.user].socketIds
        IN /\ Cardinality({i \in DOMAIN ids : ids[i] = op.sock}) = 1
           /\ \A c \in DOMAIN chats[t] :
                 op.user \in chats[t][c].participants => c \in rooms[op.sock]

\* C22: no message hidden for u (deleted by u with mode forMe) is in a
\* messageHistory list sent to a connection of u or is the lastMessage of a
\* messageDeleted event sent to u, and a history sent to a connection holds
\* every message of the chat that is not hidden for its user.
C22_HiddenStaysHidden ==
    /\ \A e \in emits :
          /\ e.ev = "messageHistory"
                => ~HiddenFor(msgs[SocketStore(e.to)][e.msg], sockTok[e.to].user)
          /\ (e.ev = "messageDeleted" /\ e.emoji = "forMe" /\ e.val # None)
                => ~HiddenFor(msgs[SocketStore(e.to)][e.val], e.user)
    /\ op.name = "getMessageHistory" =>
          \A id \in DOMAIN msgs[SocketStore(op.sock)] :
             LET m == msgs[SocketStore(op.sock)][id]
             IN (m.chatId = op.chatId /\ ~HiddenFor(m, op.user))
                   => \E e \in emits : e.ev = "messageHistory" /\ e.msg = id

\* C23: after a markAllMessagesAsRead for u, or a markMessageAsRead that
\* stored u as a new viewer, an unreadCountUpdate of the chat carrying the
\* unread count of u is eventually emitted to every live handle of u.
C23_ReaderGetsUnreadCount ==
    \A u \in Users :
        (\/ op.name = "markAllMessagesAsRead" /\ op.user = u
         \/ op.name = "markMessageAsRead" /\ op.wrote /\ op.user = u)
        ~> (\A h \in LiveSockets :
              h \in Range(cusers["T1"][u].socketIds)
              => \E e \in emits :
                    /\ e.ev = "unreadCountUpdate" /\ e.chatId = "c1" /\ e.to = h
                    /\ e.user = u
                    /\ e.val = GetUnreadCount(msgs["T1"], "c1", u, "T1"))

\* C24: a markMessageAsRead for a user who is already among the viewers of
\* the message writes nothing to the store and emits neither a messageRead nor
\* an unreadCountUpdate event.
C24_RepeatedReadIsSilent ==
    [][(/\ op'.name = "markMessageAsRead"
        /\ op'.msg \in DOMAIN msgs["T1"]
        /\ op'.user \in Range(msgs["T1"][op'.msg].viewers))
       => /\ msgs' = msgs
          /\ ~\E e \in emits' : e.ev \in {"messageRead", "unreadCountUpdate"}]_vars

\* C25: every addReaction of u with emoji em that changes the stored reactions
\* of message m is eventually followed by a messageReaction event for m, u and
\* em (the removal when em is empty) to every live handle of every participant
\* of the chat.
C25_ReactionFanOut ==
    \A m \in MsgIds : \A u \in Users : \A em \in Emojis :
        (op.name = "addReaction" /\ op.wrote /\ op.msg = m /\ op.user = u /\ op.mode = em)
        ~> (\A q \in chats["T1"]["c1"].participants : \A h \in LiveSockets :
              h \in Range(cusers["T1"][q].socketIds)
              => \E e \in emits : /\ e.ev = "messageReaction" /\ e.msg = m /\ e.to = h
                                  /\ e.user = u /\ e.emoji = em)

\* C26: after a deleteMessage with mode forEveryone that went through, the
\* message is no longer stored, every stored handle of every participant is
\* sent a messageDeleted event, and the lastMessage of the event sent to
\* participant p is the most recently created remaining message of the chat
\* that is not hidden for p, none when there is no such message.
C26_ForEveryoneLastVisible ==
    (op.name \in {"deleteMessage", "deleteMessageRest"} /\ op.mode = "forEveryone"
        /\ op.wrote) =>
        LET ms == msgs[op.tenant]
            Visible(q) == {id \in DOMAIN ms :
                             ms[id].chatId = op.chatId /\ ~HiddenFor(ms[id], q)}
        IN /\ op.msg \notin DOMAIN ms
           /\ \A q \in chats[op.tenant][op.chatId].participants :
                 \A h \in Range(cusers[op.tenant][q].socketIds) :
                    \E e \in emits : e.ev = "messageDeleted" /\ e.to = h /\ e.user = q
           /\ \A e \in emits :
                 e.ev = "messageDeleted" =>
                    /\ e.msg = op.msg
                    /\ IF Visible(e.user) = {} THEN e.val = None
                       ELSE e.val \in Visible(e.user)
                            /\ \A id \in Visible(e.user) : id <= e.val

\* C26 witness: a forEveryone deletion has told one participant that no
\* message is left and the other that an older message is the last one
C26_Witness ==
    /\ op.name \in {"deleteMessage", "deleteMessageRest"}
    /\ op.mode = "forEveryone"
    /\ op.wrote
    /\ \E e1, e2 \in emits : /\ e1.ev = "messageDeleted" /\ e2.ev = "messageDeleted"
                              /\ e1.val = None /\ e2.val # None

\* C27: when the sender of a message that is the chat's lastMessage deletes it
\* with mode forMe, the chat's lastMessage afterwards references the most
\* recent message of the chat that is not hidden for the sender; when every
\* message of the chat is hidden for the sender it still references the
\* deleted message.
C27_SenderForMeMovesPointer ==
    [][(/\ op'.name \in {"deleteMessage", "deleteMessageRest"}
        /\ op'.mode = "forMe"
        /\ op'.msg \in DOMAIN msgs[op'.tenant]
        /\ msgs[op'.tenant][op'.msg].senderId = op'.user
        /\ chats[op'.tenant][op'.chatId].lastMessage = op'.msg)
       => LET ms == msgs'[op'.tenant]
              seen == {id \in DOMAIN ms : ms[id].chatId = op'.chatId
                                          /\ ~HiddenFor(ms[id], op'.user)}
              last == chats'[op'.tenant][op'.chatId].lastMessage
          IN IF seen = {} THEN last = op'.msg
             ELSE last \in seen /\ \A id \in seen : id <= last
    ]_vars

\* C27 as stated: after that deletion the chat's lastMessage references the
\* most recent message still visible to the sender
C27_SenderForMePointsToVisible ==
    [][(/\ op'.name \in {"deleteMessage", "deleteMessageRest"}
        /\ op'.mode = "forMe"
        /\ op'.msg \in DOMAIN msgs[op'.tenant]
        /\ msgs[op'.tenant][op'.msg].senderId = op'.user
        /\ chats[op'.tenant][op'.chatId].lastMessage = op'.msg)
       => LET ms == msgs'[op'.tenant]
              seen == {id \in DOMAIN ms : ms[id].chatId = op'.chatId
                                          /\ ~HiddenFor(ms[id], op'.user)}
              last == chats'[op'.tenant][op'.chatId].lastMessage
          IN last \in seen /\ \A id \in seen : id <= last
    ]_vars

\* C27 witness: the sender has hidden the chat's lastMessage while an earlier
\* message of the other participant is hidden for the sender too, and the
\* pointer still references the message just hidden
C27_Witness ==
    /\ op.name \in {"deleteMessage", "deleteMessageRest"}
    /\ op.mode = "forMe"
    /\ op.msg \in DOMAIN msgs[op.tenant]
    /\ msgs[op.tenant][op.msg].senderId = op.user
    /\ chats[op.tenant][op.chatId].lastMessage = op.msg
    /\ \E id \in DOMAIN msgs[op.tenant] : msgs[op.tenant][id].senderId # op.user
    /\ \A id \in DOMAIN msgs[op.tenant] : HiddenFor(msgs[op.tenant][id], op.user)

\* C28: a resolve of tenant T whose credential fetch or whose connection open
\* fails leaves nothing of that attempt cached: the key vault failure changes
\* neither the registry, the model cache nor the initialized set, and a
\* connection that never opened is neither in the registry nor bound in the
\* model cache, nor is its tenant marked initialized through it.
C28_FailedResolveCachesNothing ==
    [][/\ \A p \in Procs :
            (rpc[p] = "kv" /\ rpc'[p] = "idle")
            => /\ connections' = connections
               /\ modelCache' = modelCache
               /\ initializedTenants' = initializedTenants
       /\ \A f \in openFailed' :
            /\ connections'[f[1]] # f[2]
            /\ modelCache'[f[1]] # f[2]
    ]_vars

\* C29: a disconnected notification of tenant T empties T's entry of the model
\* cache and changes neither the registry, the initialized set nor the entry
\* of another tenant; a getTenantModels that then finds the cache empty takes
\* the registry's connection, opens none, and binds the models to it.
C29_DisconnectEvictsModelsOnly ==
    [][/\ \A t \in Tenants :
            (modelCache[t] # None /\ modelCache'[t] = None)
            => /\ connections' = connections
               /\ opened' = opened
               /\ initializedTenants' = initializedTenants
               /\ \A t2 \in Tenants \ {t} : modelCache'[t2] = modelCache[t2]
       /\ \A p \in Procs :
            /\ (rpc[p] = "idle" /\ rpc'[p] # "idle" /\ rcall'[p].entry = "models"
                   /\ connections[rcall'[p].tenant] # None)
               => /\ rpc'[p] = "bind"
                  /\ rcall'[p].conn = connections[rcall'[p].tenant]
                  /\ opened' = opened
                  /\ connections' = connections
            /\ (rpc[p] = "bind" /\ rpc'[p] = "idle")
               => modelCache'[rcall[p].tenant] = rcall[p].conn
    ]_vars

\* C29 witness: with tenant T1 connected once, initialized and its model cache
\* empty, a getTenantModels is about to bind the models to the registry's
\* connection, while the models of T2 stay cached
C29_Witness ==
    /\ opened["T1"] = 1
    /\ "T1" \in initializedTenants
    /\ modelCache["T1"] = None
    /\ modelCache["T2"] # None
    /\ \E p \in Procs : /\ rpc[p] = "bind"
                         /\ rcall[p].tenant = "T1"
                         /\ rcall[p].conn = connections["T1"]

\* C30: no rejection of a store call made inside a socket event handler,
\* the calls of its fan-out callbacks included, ends as an unhandled
\* rejection: every one is caught inside the handler.
C30_FailuresAreCaught == op.mode # "unhandledRejection"

\* C31: every stored chat has at least two participants.
C31_AtLeastTwoParticipants ==
    \A t \in Tenants : \A c \in DOMAIN chats[t] :
        Cardinality(chats[t][c].participants) >= 2

\* C32: once every join and disconnect handler has completed, the socketIds
\* stored for a participant are exactly the connections of that participant
\* that joined and have not disconnected: no stored handle belongs to a
\* closed connection.
C32_StoredHandlesAreLive ==
    (\A s \in Socks : dpend[s].phase = "none") =>
        \A t \in Tenants : \A u \in DOMAIN cusers[t] :
            \A h \in Range(cusers[t][u].socketIds) : sockState[h] = "open"

\* C33: once every join and disconnect handler has completed, a participant's
\* active flag is true exactly when the participant's socketIds are not
\* empty, also right after the join that created the participant's record.
C33_ActiveIffHandles ==
    (\A s \in Socks : dpend[s].phase = "none") =>
        \A t \in Tenants : \A u \in DOMAIN cusers[t] :
            cusers[t][u].active <=> (cusers[t][u].socketIds # <<>>)

\* C34: when no handler is suspended, a chat's lastMessage is empty or
\* references a message that is stored and belongs to that chat, also after
\* the chat's last message was deleted for everyone.
C34_LastMessageExists ==
    (\A s \in Socks : pend[s] = NoPend) =>
        \A t \in Tenants : \A c \in DOMAIN chats[t] :
            \/ chats[t][c].lastMessage = None
            \/ /\ chats[t][c].lastMessage \in DOMAIN msgs[t]
               /\ msgs[t][chats[t][c].lastMessage].chatId = c

\* the newest message of chat c in store t (ObjectIds grow with creation)
NewestOfChat(t, c) ==
    LET ofChat == {id \in DOMAIN msgs[t] : msgs[t][id].chatId = c}
    IN IF ofChat = {} THEN None ELSE CHOOSE id \in ofChat : \A j \in ofChat : j <= id

\* C35: once every sendMessage call has completed, the lastMessage of a chat
\* references the message of that chat that was created last.
C35_LastMessageIsLatest ==
    (\A p \in Procs : ccall[p].phase = "idle") =>
        \A t \in Tenants : \A c \in DOMAIN chats[t] :
            chats[t][c].lastMessage = NewestOfChat(t, c)

C37_EffectOnlyForAuthenticated ==
    [][(op'.name \in {"deleteMessage", "markMessageAsRead", "markAllMessagesAsRead"}
        /\ op'.sock # "") =>
          \A t \in Tenants : \A id \in DOMAIN msgs[t] \cap DOMAIN msgs'[t] :
             /\ Range(msgs'[t][id].viewers) \ Range(msgs[t][id].viewers)
                    \subseteq {sockTok[op'.sock].user}
             /\ Range(msgs'[t][id].deletedFor) \ Range(msgs[t][id].deletedFor)
                    \subseteq {sockTok[op'.sock].user}
    ]_vars

\* C38: clearTenantPIICache(T) and invalidateDecryptionCache(T, pattern)
\* remove only decrypted-value entries of tenant T: the decrypted entries of
\* the other tenants, the cached derived keys and the cached secrets stay.
C38_InvalidationStaysInTenant ==
    [][res'.name \in {"clearTenantPIICache", "invalidateDecryptionCache"} =>
          \A e \in dcache :
             ~(Len(e.key) = 5 /\ e.key[1] = res'.tenant) => e \in dcache'
    ]_vars

\* C39: in the reply to getMessageHistory(chatId, page) with page >= 1,
\* hasMore is true exactly when the chat holds messages older than those in
\* the reply, and total is the number of messages of that chat from which the
\* reply's messages were taken.
C39_HasMoreIffOlderExist ==
    op.name = "getMessageHistory" =>
        \A e \in emits : e.ev = "messageHistoryPage" =>
            LET t == SocketStore(op.sock)
                mine == {id \in DOMAIN msgs[t] :
                            /\ msgs[t][id].chatId = op.chatId
                            /\ msgs[t][id].tenantId = op.tenant}
                sent == {x.msg : x \in {y \in emits : y.ev = "messageHistory"}}
            IN /\ (e.emoji = "hasMore") <=>
                      (\E id \in mine \ sent : \A j \in sent : id < j)
               /\ e.val = Cardinality(mine)

\* C40: the body carried by the messageEdited event of an edit made under a
\* tenant context is the plaintext body that was sent, never the ciphertext
\* that is stored.
C40_EventsCarryPlaintext ==
    (res.name = "editMessage" /\ res.ok /\ res.tenant # "" /\ res.plain # <<>>)
        => res.out = res.plain

====
